---- MODULE Spec2Model ----
(***************************************************************************)
(* trackwatch: the album-art artifact pipeline.                            *)
(*                                                                         *)
(*   ImageCache (src/cache.rs)          the on-disk store of CachedImage   *)
(*   DisplayFormatter (src/display/formatter.rs)                           *)
(*                                      fetch_and_process_all_formats      *)
(*   ColorExtractor (src/colors.rs)     extract_palette and its helpers    *)
(*                                                                         *)
(* Specification Spec is the cache and the pipeline over a small cache     *)
(* directory; specification PaletteSpec applies extract_palette to small   *)
(* images; specification RaceSpec runs two ImageCache::set on one locator  *)
(* in two processes and GetSetSpec a get next to a set; CaseSpec and       *)
(* ClearSpec are the cache over other locators and with clear and size;    *)
(* BrightenSpec, KMeansSpec, RepeatSpec and CountSpec apply parts of the   *)
(* palette computation; LyricsSpec applies find_current_line and ParseSpec *)
(* parse_lrc; WorkerSpec runs the background worker of main and its        *)
(* lyrics tasks.                                                           *)
(***************************************************************************)
EXTENDS Integers, Sequences, FiniteSets, TLC

VARIABLES
    disk,      \* the cache directory: cache key -> file
    now,       \* the system clock, seconds since the epoch
    last,      \* the last call made and what it returned
    healed,    \* per key: a get found the file corrupt or expired, no set since
    stored,    \* per key: the entry of the last set, if it succeeded
    calls,     \* how many calls have been made
    pal,       \* the palette computation: its input and its result
    race,      \* two processes that set the same locator at once
    lyr,       \* the lyrics lookup: its input and its result
    worker     \* the background worker thread of main

cacheVars == <<disk, now, last, healed, stored, calls>>
otherVars == <<pal, race, lyr, worker>>
vars == <<disk, now, last, healed, stored, calls, pal, race, lyr, worker>>

(***************************************************************************)
(* Bounds of the model.                                                    *)
(***************************************************************************)
MaxCalls == 2

(***************************************************************************)
(* Constants of the program.                                               *)
(***************************************************************************)
CACHE_EXPIRY_DAYS == 30

SecondsPerDay == 60 * 60 * 24

\* The clock at the start: late enough for an entry to be 31 days old.
StartTime == 31 * SecondsPerDay

\* The readings of the clock at which calls are made: the start, a second
\* later, and 31 days after the start.
Instants == {StartTime, StartTime + 1, StartTime + 31 * SecondsPerDay}

(***************************************************************************)
(* Locators and cache keys.  generate_cache_key is SHA-256 of the bytes of *)
(* the locator: the key is a function of the exact string, and distinct    *)
(* strings have distinct keys.                                             *)
(***************************************************************************)
FileUrl == "file:///art/cover.png"
HttpUrl == "https://img.example/cover.jpg"

Locators == {FileUrl, HttpUrl}

\* Locators that differ only in letter case or in the query string.
LowerUrl == "https://img.example/cover.jpg"
UpperUrl == "https://img.example/Cover.jpg"
QueryUrl == "https://img.example/cover.jpg?size=640"

CaseLocators == {LowerUrl, UpperUrl, QueryUrl}

\* A key derivation that lowers the case of the locator and drops its query
\* string before hashing.
generate_cache_key_mutant(url) ==
    <<"sha256", IF url \in CaseLocators THEN LowerUrl ELSE url>>

generate_cache_key(url) == <<"sha256", url>>

Keys == {generate_cache_key(u) : u \in Locators}

(***************************************************************************)
(* Images and the artifacts derived from them.  The pipeline treats the    *)
(* three artifacts as opaque values; each is a function of the decoded     *)
(* image.                                                                  *)
(***************************************************************************)
Images == {1, 2}

\* The image a locator serves when its acquisition succeeds.
ImageAt(url) == 1

image_to_block_lines(img) == 10 + img

pixel_rows(img) == 20 + img

PaletteOf(img) == 30 + img

Artifacts(img) ==
    [pixelated |-> image_to_block_lines(img),
     ratatui |-> pixel_rows(img),
     color_palette |-> PaletteOf(img)]

NoArtifacts == [pixelated |-> 0, ratatui |-> 0, color_palette |-> 0]

(***************************************************************************)
(* CachedImage and its JSON text.  The text is the sequence of the         *)
(* object's members, each a <<name, value>> pair.                          *)
(***************************************************************************)
CachedImage(pixelated, ratatui, color_palette, cached_at) ==
    [pixelated |-> pixelated, ratatui |-> ratatui,
     color_palette |-> color_palette, cached_at |-> cached_at]

NoCachedImage == CachedImage(0, 0, 0, 0)

None == [some |-> FALSE, v |-> NoCachedImage]

Some(c) == [some |-> TRUE, v |-> c]

FieldNames == {"pixelated", "ratatui", "color_palette", "cached_at"}

\* serde_json::to_string(&cached): the members in declaration order.
to_string(c) ==
    << <<"pixelated", c.pixelated>>, <<"ratatui", c.ratatui>>,
       <<"color_palette", c.color_palette>>, <<"cached_at", c.cached_at>> >>

Members(text, name) == {i \in 1..Len(text) : text[i][1] = name}

Member(text, name) == text[CHOOSE i \in Members(text, name) : TRUE][2]

\* serde_json::from_str::<CachedImage>(&contents): every field exactly once,
\* in any order; anything else is an error.
from_str(text) ==
    IF \A n \in FieldNames : Cardinality(Members(text, n)) = 1
    THEN [ok |-> TRUE,
          v |-> CachedImage(Member(text, "pixelated"), Member(text, "ratatui"),
                            Member(text, "color_palette"), Member(text, "cached_at"))]
    ELSE [ok |-> FALSE, v |-> NoCachedImage]

(***************************************************************************)
(* Files.  A file that exists holds bytes that are valid UTF-8 or not      *)
(* (read_to_string fails on the latter), and, when they are, a text.       *)
(***************************************************************************)
Missing == [exists |-> FALSE, utf8 |-> TRUE, text |-> <<>>]

TextFile(text) == [exists |-> TRUE, utf8 |-> TRUE, text |-> text]

BinaryFile == [exists |-> TRUE, utf8 |-> FALSE, text |-> <<>>]

\* fs::read_to_string(&cache_path)
read_to_string(file) ==
    IF file.exists /\ file.utf8
    THEN [ok |-> TRUE, contents |-> file.text]
    ELSE [ok |-> FALSE, contents |-> <<>>]

\* fs::remove_file(&cache_path); ok is whether the file system lets it succeed.
remove_file(d, key, ok) ==
    IF ok /\ d[key].exists THEN [d EXCEPT ![key] = Missing] ELSE d

\* The ways fs::write(cache_path, json) can end: the whole text written; the
\* file could not be opened (nothing changes); the file was created or
\* truncated and the write stopped after a prefix of the text.
ShortWrites == {2}

WholeWrite == [opened |-> TRUE, written |-> 4]

WriteOutcomes ==
    {WholeWrite, [opened |-> FALSE, written |-> 0]}
        \cup {[opened |-> TRUE, written |-> n] : n \in ShortWrites}

write(d, key, text, outcome) ==
    IF ~outcome.opened
    THEN [ok |-> FALSE, disk |-> d]
    ELSE IF outcome.written < Len(text)
         THEN [ok |-> FALSE,
               disk |-> [d EXCEPT ![key] = TextFile(SubSeq(text, 1, outcome.written))]]
         ELSE [ok |-> TRUE, disk |-> [d EXCEPT ![key] = TextFile(text)]]

(***************************************************************************)
(* ImageCache                                                              *)
(***************************************************************************)
is_expired_mutant(cached_at, t) ==
    IF cached_at > t
    THEN FALSE
    ELSE ((t - cached_at) \div SecondsPerDay) >= CACHE_EXPIRY_DAYS

is_expired(cached_at, t) ==
    IF cached_at > t
    THEN FALSE
    ELSE ((t - cached_at) \div SecondsPerDay) > CACHE_EXPIRY_DAYS

\* The arms of ImageCache::get.  Each gives the result, the directory
\* afterwards, and whether remove_file was called; rmOk is the outcome of
\* that call.

\* The file was read and parsed: the expiry check.
get_parsed_mutant(d, key, cached, t, rmOk) ==
    [ret |-> Some(cached), disk |-> d, rm |-> FALSE]

get_parsed(d, key, cached, t, rmOk) ==
    IF is_expired(cached.cached_at, t)
    THEN [ret |-> None, disk |-> remove_file(d, key, rmOk), rm |-> TRUE]
    ELSE [ret |-> Some(cached), disk |-> d, rm |-> FALSE]

\* The file was read and did not parse.
get_invalid_mutant(d, key, rmOk) ==
    [ret |-> None, disk |-> d, rm |-> FALSE]

get_invalid(d, key, rmOk) ==
    [ret |-> None, disk |-> remove_file(d, key, rmOk), rm |-> TRUE]

\* The file could not be read.
get_unreadable(d, key) ==
    [ret |-> None, disk |-> d, rm |-> FALSE]

\* ImageCache::get at time t.
get(d, url, t, rmOk) ==
    LET key == generate_cache_key(url)
        rd == read_to_string(d[key])
        parsed == from_str(rd.contents)
    IN  IF ~d[key].exists
        THEN [ret |-> None, disk |-> d, rm |-> FALSE]
        ELSE IF ~rd.ok
             THEN get_unreadable(d, key)
             ELSE IF ~parsed.ok
                  THEN get_invalid(d, key, rmOk)
                  ELSE get_parsed(d, key, parsed.v, t, rmOk)

\* ImageCache::set at time t; outcome is how its fs::write ends.
set_mutant(d, url, pixelated, ratatui, color_palette, t, outcome) ==
    LET key == generate_cache_key(url)
        cached == CachedImage(pixelated, ratatui, color_palette, t)
        json == to_string(cached)
    IN  IF d[key].exists
        THEN [ok |-> TRUE, disk |-> d]
        ELSE write(d, key, json, outcome)

set(d, url, pixelated, ratatui, color_palette, t, outcome) ==
    LET key == generate_cache_key(url)
        cached == CachedImage(pixelated, ratatui, color_palette, t)
        json == to_string(cached)
    IN  write(d, key, json, outcome)

(***************************************************************************)
(* DisplayFormatter::fetch_and_process_all_formats                         *)
(***************************************************************************)
\* url.starts_with("file://")
starts_with_file(url) == url = FileUrl

\* How loading the image can end.  A local file: image::open fails or gives
\* the image.  A remote one: reqwest::blocking::get, response.bytes or
\* image::load_from_memory fails, or the image is decoded.
AcquireOutcomes(url) ==
    IF starts_with_file(url)
    THEN {"image", "open"}
    ELSE {"image", "get", "bytes", "decode"}

TripleOf(cached) ==
    [pixelated |-> cached.pixelated, ratatui |-> cached.ratatui,
     color_palette |-> cached.color_palette]

\* The arms of fetch_and_process_all_formats.  Each gives the result (ok
\* and the triple), the directory afterwards, how often the image was
\* loaded, and whether ImageCache::set was called and returned Ok.  t is the
\* time of the call, wr the outcome of the fs::write a set makes.

\* The lookup returned an entry.
fetch_hit_mutant(d, url, cached, t, wr) ==
    LET put == set(d, url, cached.pixelated, cached.ratatui,
                   cached.color_palette, t, wr)
    IN  [ok |-> TRUE, out |-> TripleOf(cached), disk |-> put.disk,
         acquires |-> 0, setCalled |-> TRUE, setOk |-> put.ok,
         arg |-> CachedImage(cached.pixelated, cached.ratatui,
                             cached.color_palette, t)]

fetch_hit(d, url, cached, t, wr) ==
    [ok |-> TRUE, out |-> TripleOf(cached), disk |-> d,
     acquires |-> 0, setCalled |-> FALSE, setOk |-> FALSE,
     arg |-> NoCachedImage]

\* The image could not be loaded: the error is returned.
fetch_load_failed_mutant(d, url, t, wr) ==
    LET put == set(d, url, 0, 0, 0, t, wr)
    IN  [ok |-> FALSE, out |-> NoArtifacts, disk |-> put.disk,
         acquires |-> 1, setCalled |-> TRUE, setOk |-> put.ok,
         arg |-> CachedImage(0, 0, 0, t)]

fetch_load_failed(d, url, t, wr) ==
    [ok |-> FALSE, out |-> NoArtifacts, disk |-> d,
     acquires |-> 1, setCalled |-> FALSE, setOk |-> FALSE,
     arg |-> NoCachedImage]

\* The image was loaded: the artifacts are derived and stored.
fetch_loaded_mutant(d, url, img, t, wr) ==
    LET fresh == Artifacts(img)
        put == set(d, url, fresh.pixelated, fresh.ratatui,
                   fresh.color_palette, t, wr)
    IN  [ok |-> put.ok, out |-> IF put.ok THEN fresh ELSE NoArtifacts,
         disk |-> put.disk,
         acquires |-> 1, setCalled |-> TRUE, setOk |-> put.ok,
         arg |-> CachedImage(fresh.pixelated, fresh.ratatui,
                             fresh.color_palette, t)]

fetch_loaded(d, url, img, t, wr) ==
    LET fresh == Artifacts(img)
        put == set(d, url, fresh.pixelated, fresh.ratatui,
                   fresh.color_palette, t, wr)
    IN  [ok |-> TRUE, out |-> fresh, disk |-> put.disk,
         acquires |-> 1, setCalled |-> TRUE, setOk |-> put.ok,
         arg |-> CachedImage(fresh.pixelated, fresh.ratatui,
                             fresh.color_palette, t)]

\* The whole call at time t: the cache lookup, and on a miss the load, the
\* derivation of the three artifacts and the store.  rmOk, acq and wr are
\* the outcomes of the remove_file, the load and the fs::write it may make.
fetch_and_process_all_formats(d, url, t, rmOk, acq, wr) ==
    LET looked == get(d, url, t, rmOk)
        r == IF looked.ret.some
             THEN fetch_hit(looked.disk, url, looked.ret.v, t, wr)
             ELSE IF acq # "image"
                  THEN fetch_load_failed(looked.disk, url, t, wr)
                  ELSE fetch_loaded(looked.disk, url, ImageAt(url), t, wr)
    IN  [ok |-> r.ok, out |-> r.out, disk |-> r.disk,
         ret |-> looked.ret, rm |-> looked.rm,
         acquires |-> r.acquires, setCalled |-> r.setCalled, setOk |-> r.setOk,
         arg |-> r.arg]

(***************************************************************************)
(* The state machine of the cache and the pipeline.                        *)
(***************************************************************************)
\* The cached_at of the entries found in the directory at the start: 31 days
\* old, one second less, 30 days old, and an hour in the future.
InitCachedAts == {0, 1, SecondsPerDay, StartTime + 3600}

InitEntries ==
    {CachedImage(a.pixelated, a.ratatui, a.color_palette, c) :
        a \in {Artifacts(2)}, c \in InitCachedAts}

\* The files found at the start: none, bytes that are no UTF-8, an empty
\* file, or an entry.
InitFiles ==
    {Missing, BinaryFile, TextFile(<<>>)}
        \cup {TextFile(to_string(c)) : c \in InitEntries}

NoCall ==
    [op |-> "none", url |-> FileUrl, t |-> 0, pre |-> Missing, ret |-> None,
     rm |-> FALSE, rmOk |-> FALSE, ok |-> FALSE, out |-> NoArtifacts,
     arg |-> NoCachedImage, acquires |-> 0, setCalled |-> FALSE,
     setOk |-> FALSE, acq |-> "none",
     preHealed |-> FALSE, preStored |-> None, bytes |-> 0]

NoPalette == [stage |-> "none"]

NoRace == [stage |-> "none"]

NoLyrics == [stage |-> "none"]

NoWorker == [pc |-> "none"]

\* The directory at the start holds at most one file, under any key.
InitDisks ==
    {[k \in Keys |-> IF k = key THEN file ELSE Missing] :
        key \in Keys, file \in InitFiles}

Init ==
    /\ disk \in InitDisks
    /\ now = StartTime
    /\ calls = 0
    /\ last = NoCall
    /\ healed = [k \in Keys |-> FALSE]
    /\ stored = [k \in Keys |-> None]
    /\ pal = NoPalette
    /\ race = NoRace
    /\ lyr = NoLyrics
    /\ worker = NoWorker

\* What a get finds wrong with the file of a key at time t.
Unparseable(file) ==
    file.exists /\ file.utf8 /\ ~from_str(file.text).ok

Expired(file, t) ==
    /\ file.exists /\ file.utf8 /\ from_str(file.text).ok
    /\ is_expired(from_str(file.text).v.cached_at, t)

Unreadable(file) == file.exists /\ ~file.utf8

\* The clock advances.
Tick(t) ==
    /\ t > now
    /\ now' = t
    /\ UNCHANGED <<disk, last, healed, stored, calls, otherVars>>

\* A call of ImageCache::get.
Get(url, rmOk) ==
    LET key == generate_cache_key(url)
        r == get(disk, url, now, rmOk)
    IN  /\ calls < MaxCalls
        /\ r.rm \/ rmOk
        /\ calls' = calls + 1
        /\ disk' = r.disk
        /\ last' = [NoCall EXCEPT !.op = "get", !.url = url, !.t = now,
                                  !.pre = disk[key], !.ret = r.ret, !.rm = r.rm,
                                  !.rmOk = r.rm /\ rmOk,
                                  !.preHealed = healed[key],
                                  !.preStored = stored[key]]
        /\ healed' = [healed EXCEPT ![key] =
                         @ \/ Unparseable(disk[key]) \/ Expired(disk[key], now)]
        /\ UNCHANGED <<now, stored, otherVars>>

\* A call of ImageCache::set with the artifacts of some image.
Set(url, img, wr) ==
    LET key == generate_cache_key(url)
        a == Artifacts(img)
        r == set(disk, url, a.pixelated, a.ratatui, a.color_palette, now, wr)
        entry == CachedImage(a.pixelated, a.ratatui, a.color_palette, now)
    IN  /\ calls < MaxCalls
        /\ calls' = calls + 1
        /\ disk' = r.disk
        /\ last' = [NoCall EXCEPT !.op = "set", !.url = url, !.t = now,
                                  !.pre = disk[key], !.ok = r.ok, !.arg = entry,
                                  !.setCalled = TRUE, !.setOk = r.ok,
                                  !.preHealed = healed[key],
                                  !.preStored = stored[key]]
        /\ healed' = [healed EXCEPT ![key] = FALSE]
        /\ stored' = [stored EXCEPT ![key] = IF r.ok THEN Some(entry) ELSE None]
        /\ UNCHANGED <<now, otherVars>>

\* A call of DisplayFormatter::fetch_and_process_all_formats.
Fetch(url, rmOk, acq, wr) ==
    LET key == generate_cache_key(url)
        r == fetch_and_process_all_formats(disk, url, now, rmOk, acq, wr)
    IN  /\ calls < MaxCalls
        /\ r.rm \/ rmOk
        /\ r.acquires > 0 \/ acq = "image"
        /\ r.setCalled \/ wr = WholeWrite
        /\ calls' = calls + 1
        /\ disk' = r.disk
        /\ last' = [NoCall EXCEPT !.op = "fetch", !.url = url, !.t = now,
                                  !.pre = disk[key], !.ret = r.ret, !.rm = r.rm,
                                  !.rmOk = r.rm /\ rmOk, !.ok = r.ok, !.out = r.out,
                                  !.acq = IF r.acquires > 0 THEN acq ELSE "none",
                                  !.arg = r.arg,
                                  !.acquires = r.acquires,
                                  !.setCalled = r.setCalled, !.setOk = r.setOk,
                                  !.preHealed = healed[key],
                                  !.preStored = stored[key]]
        /\ healed' = [healed EXCEPT ![key] =
                         IF r.setCalled THEN FALSE
                         ELSE @ \/ Unparseable(disk[key]) \/ Expired(disk[key], now)]
        /\ stored' = [stored EXCEPT ![key] =
                         IF r.setCalled
                         THEN IF r.setOk THEN Some(r.arg) ELSE None
                         ELSE @]
        /\ UNCHANGED <<now, otherVars>>

Next ==
    \/ \E t \in Instants : Tick(t)
    \/ \E url \in Locators, rmOk \in BOOLEAN : Get(url, rmOk)
    \/ \E url \in Locators, img \in Images, wr \in WriteOutcomes : Set(url, img, wr)
    \/ \E url \in Locators, rmOk \in BOOLEAN, wr \in WriteOutcomes :
          \E acq \in AcquireOutcomes(url) : Fetch(url, rmOk, acq, wr)

Spec == Init /\ [][Next]_vars

(***************************************************************************)
(* ColorExtractor.  Colors are <<r, g, b>> with channels in 0..255, pixels *)
(* <<r, g, b, a>>.  Real numbers are fixed-point integers: linear light    *)
(* and XYZ in millionths, Lab coordinates in ten-thousandths.              *)
(***************************************************************************)
Million == 1000 * 1000

Abs(x) == IF x < 0 THEN -x ELSE x

Max(x, y) == IF x >= y THEN x ELSE y

Min(x, y) == IF x <= y THEN x ELSE y

\* a * b / 10^6 for a, b >= 0, rounded down, without leaving 32 bits.
MulMillion(a, b) ==
    LET a1 == a \div 1000
        a0 == a % 1000
        b1 == b \div 1000
        b0 == b % 1000
    IN  a1 * b1 + ((a1 * b0 + a0 * b1) + (a0 * b0) \div 1000) \div 1000

\* a * b / 10^6 for signed a and b, rounded toward zero.
SMul(a, b) ==
    IF (a < 0) = (b < 0)
    THEN MulMillion(Abs(a), Abs(b))
    ELSE -MulMillion(Abs(a), Abs(b))

\* a * 10^6 / w for 0 <= a, 0 < w about 10^6, rounded down.
DivMillion(a, w) ==
    LET q1 == (a * 1000) \div w
        r1 == (a * 1000) % w
    IN  q1 * 1000 + (r1 * 1000) \div w

\* srgb_to_linear(v / 255) in millionths, for v = 0..255 (entry v + 1).  The
\* threshold of the branch lies between 10/255 and 11/255.
SrgbLinearTable ==
    <<0, 304, 607, 911, 1214, 1518, 1821, 2125, 2428, 2732,
       3035, 3347, 3677, 4025, 4391, 4777, 5182, 5605, 6049, 6512,
       6995, 7499, 8023, 8568, 9134, 9721, 10330, 10960, 11612, 12286,
       12983, 13702, 14444, 15209, 15996, 16807, 17642, 18500, 19382, 20289,
       21219, 22174, 23153, 24158, 25187, 26241, 27321, 28426, 29557, 30713,
       31896, 33105, 34340, 35601, 36889, 38204, 39546, 40915, 42311, 43735,
       45186, 46665, 48172, 49707, 51269, 52861, 54480, 56128, 57805, 59511,
       61246, 63010, 64803, 66626, 68478, 70360, 72272, 74214, 76185, 78187,
       80220, 82283, 84376, 86500, 88656, 90842, 93059, 95307, 97587, 99899,
       102242, 104616, 107023, 109462, 111932, 114435, 116971, 119538, 122139, 124772,
       127438, 130136, 132868, 135633, 138432, 141263, 144128, 147027, 149960, 152926,
       155926, 158961, 162029, 165132, 168269, 171441, 174647, 177888, 181164, 184475,
       187821, 191202, 194618, 198069, 201556, 205079, 208637, 212231, 215861, 219526,
       223228, 226966, 230740, 234551, 238398, 242281, 246201, 250158, 254152, 258183,
       262251, 266356, 270498, 274677, 278894, 283149, 287441, 291771, 296138, 300544,
       304987, 309469, 313989, 318547, 323143, 327778, 332452, 337164, 341914, 346704,
       351533, 356400, 361307, 366253, 371238, 376262, 381326, 386429, 391572, 396755,
       401978, 407240, 412543, 417885, 423268, 428690, 434154, 439657, 445201, 450786,
       456411, 462077, 467784, 473531, 479320, 485150, 491021, 496933, 502886, 508881,
       514918, 520996, 527115, 533276, 539479, 545724, 552011, 558340, 564712, 571125,
       577580, 584078, 590619, 597202, 603827, 610496, 617207, 623960, 630757, 637597,
       644480, 651406, 658375, 665387, 672443, 679542, 686685, 693872, 701102, 708376,
       715694, 723055, 730461, 737910, 745404, 752942, 760525, 768151, 775822, 783538,
       791298, 799103, 806952, 814847, 822786, 830770, 838799, 846873, 854993, 863157,
       871367, 879622, 887923, 896269, 904661, 913099, 921582, 930111, 938686, 947307,
       955973, 964686, 973445, 982251, 991102, 1000000 >>

SrgbThresholdTable ==
    <<152, 455, 759, 1062, 1366, 1669, 1973, 2276, 2580, 2884,
       3188, 3509, 3848, 4206, 4582, 4977, 5391, 5825, 6278, 6751,
       7245, 7759, 8293, 8848, 9425, 10023, 10642, 11283, 11947, 12632,
       13340, 14070, 14823, 15600, 16399, 17222, 18068, 18938, 19832, 20751,
       21693, 22661, 23652, 24669, 25711, 26778, 27870, 28988, 30132, 31301,
       32497, 33719, 34967, 36242, 37544, 38872, 40227, 41610, 43020, 44457,
       45922, 47415, 48936, 50484, 52062, 53667, 55301, 56963, 58655, 60375,
       62124, 63903, 65711, 67548, 69415, 71312, 73239, 75196, 77183, 79200,
       81247, 83326, 85434, 87574, 89745, 91946, 94179, 96443, 98739, 101066,
       103425, 105816, 108238, 110693, 113180, 115699, 118250, 120835, 123451, 126101,
       128783, 131498, 134247, 137028, 139843, 142692, 145574, 148489, 151439, 154422,
       157439, 160491, 163576, 166696, 169851, 173040, 176264, 179522, 182815, 186143,
       189507, 192905, 196339, 199808, 203313, 206853, 210429, 214041, 217689, 221373,
       225092, 228848, 232641, 236470, 240335, 244237, 248175, 252151, 256163, 260212,
       264298, 268422, 272583, 276781, 281017, 285290, 289601, 293950, 298336, 302761,
       307223, 311724, 316263, 320840, 325456, 330110, 334803, 339534, 344304, 349113,
       353961, 358849, 363775, 368740, 373745, 378789, 383873, 388996, 394159, 399362,
       404604, 409886, 415209, 420571, 425974, 431417, 436900, 442424, 447988, 453593,
       459239, 464925, 470653, 476421, 482230, 488080, 493972, 499905, 505879, 511894,
       517951, 524050, 530191, 536373, 542597, 548863, 555171, 561521, 567913, 574347,
       580824, 587343, 593905, 600509, 607156, 613846, 620578, 627353, 634172, 641033,
       647937, 654885, 661876, 668910, 675987, 683108, 690273, 697481, 704733, 712029,
       719369, 726752, 734180, 741652, 749168, 756728, 764332, 771981, 779674, 787412,
       795195, 803022, 810894, 818811, 826772, 834779, 842830, 850927, 859069, 867256,
       875489, 883767, 892091, 900460, 908874, 917335, 925841, 934393, 942990, 951634,
       960324, 969060, 977842, 986671, 995545 >>

srgb_to_linear(v) == SrgbLinearTable[v + 1]

\* relative_luminance(color), times 10^9.
relative_luminance(color) ==
    2126 * (srgb_to_linear(color[1]) \div 10)
        + 7152 * (srgb_to_linear(color[2]) \div 10)
        + 722 * (srgb_to_linear(color[3]) \div 10)

\* contrast_ratio(color1, color2) as a fraction: (lighter + 0.05) over
\* (darker + 0.05), both times 10^9.
contrast_ratio(color1, color2) ==
    LET lum1 == relative_luminance(color1)
        lum2 == relative_luminance(color2)
    IN  [num |-> Max(lum1, lum2) + 50 * Million,
         den |-> Min(lum1, lum2) + 50 * Million]

\* ratio >= n and ratio < n for a whole number n.
AtLeast(ratio, n) == ratio.num \div ratio.den >= n

Below(ratio, n) == ratio.num \div ratio.den < n

\* calculate_brightness(color), times 3 * 255.
calculate_brightness(color) == color[1] + color[2] + color[3]

\* colors.sort_by(brightness): a stable sort, darkest first.
RECURSIVE InsertByBrightness(_, _)
InsertByBrightness(sorted, color) ==
    IF sorted = <<>>
    THEN <<color>>
    ELSE IF calculate_brightness(sorted[Len(sorted)]) <= calculate_brightness(color)
         THEN Append(sorted, color)
         ELSE Append(InsertByBrightness(SubSeq(sorted, 1, Len(sorted) - 1), color),
                     sorted[Len(sorted)])

RECURSIVE SortPrefix(_, _)
SortPrefix(colors, n) ==
    IF n = 0 THEN <<>> ELSE InsertByBrightness(SortPrefix(colors, n - 1), colors[n])

sort_by_brightness(colors) == SortPrefix(colors, Len(colors))

\* f32 arithmetic of ensure_min_brightness.  An f32 has a significand of 24
\* bits; a result is rounded to the nearest f32, ties to the even one.
RECURSIVE Pow2(_)
Pow2(n) == IF n = 0 THEN 1 ELSE 2 * Pow2(n - 1)

\* The number of bits of a positive integer.
RECURSIVE BitLen(_)
BitLen(n) == IF n = 0 THEN 0 ELSE 1 + BitLen(n \div 2)

\* The exponent of a / b for a >= b >= 1: the largest e with b * 2^e <= a.
RECURSIVE ExponentFrom(_, _, _)
ExponentFrom(a, b, e) ==
    IF b * Pow2(e + 1) <= a THEN ExponentFrom(a, b, e + 1) ELSE e

\* a as f32 / b as f32 for 255 >= a >= b >= 1: the f32 m * 2^(e - 23).
F32Div(a, b) ==
    LET e == ExponentFrom(a, b, 0)
        n == a * Pow2(23 - e)
        q == n \div b
        r == n % b
    IN  [m |-> IF 2 * r > b \/ (2 * r = b /\ q % 2 = 1) THEN q + 1 ELSE q,
         e |-> e]

\* (c as f32 * scale) as u8 for a channel c: the product c * m, held as
\* high * 4096 + low, is rounded to 24 bits, scaled and truncated.
F32MulAsU8(c, scale) ==
    IF c = 0
    THEN 0
    ELSE LET part == c * (scale.m % 4096)
             high == c * (scale.m \div 4096) + part \div 4096
             low == part % 4096
             d == Max(BitLen(high) + 12 - 24, 0)
             dropped == low % Pow2(d)
             kept == high * Pow2(12 - d) + low \div Pow2(d)
             up == /\ d > 0
                   /\ \/ 2 * dropped > Pow2(d)
                      \/ (2 * dropped = Pow2(d) /\ kept % 2 = 1)
         IN  Min((kept + IF up THEN 1 ELSE 0) \div Pow2(23 - scale.e - d), 255)

\* ensure_min_brightness(color, min_value).
ensure_min_brightness(color, min_value) ==
    LET r == color[1]
        g == color[2]
        b == color[3]
        max_channel == Max(Max(r, g), b)
        scale == F32Div(min_value, max_channel)
    IN  IF r >= min_value \/ g >= min_value \/ b >= min_value
        THEN <<Max(r, min_value \div 2), Max(g, min_value \div 2),
               Max(b, min_value \div 2)>>
        ELSE IF max_channel = 0
             THEN <<min_value, min_value, min_value>>
             ELSE <<F32MulAsU8(r, scale), F32MulAsU8(g, scale),
                    F32MulAsU8(b, scale)>>

(***************************************************************************)
(* Srgb <-> Lab (D65), as Lab::from_color and Srgb::from_color compute it. *)
(***************************************************************************)
WhiteX == 950470

WhiteZ == 1088830

\* 216 / 24389, the threshold of the cube root, in millionths.
LabEpsilon == 8856

Cube(f) == MulMillion(MulMillion(f, f), f)

\* The cube root of t, both in millionths: the largest f with f^3 <= t.
RECURSIVE CbrtBetween(_, _, _)
CbrtBetween(t, lo, hi) ==
    IF hi - lo <= 1
    THEN lo
    ELSE LET mid == (lo + hi) \div 2
         IN  IF Cube(mid) <= t
             THEN CbrtBetween(t, mid, hi)
             ELSE CbrtBetween(t, lo, mid)

Cbrt(t) == CbrtBetween(t, 0, 1100000)

\* f(t) = cbrt(t) above the threshold, (kappa * t + 16) / 116 below.
LabF(t) ==
    IF t > LabEpsilon THEN Cbrt(t) ELSE MulMillion(7787037, t) + 137931

\* The inverse of LabF.
LabFInv(f) ==
    IF f < 0
    THEN SMul(f - 137931, 128419)
    ELSE IF Cube(f) > LabEpsilon THEN Cube(f) ELSE SMul(f - 137931, 128419)

SrgbToLab(rgb) ==
    LET lr == srgb_to_linear(rgb[1])
        lg == srgb_to_linear(rgb[2])
        lb == srgb_to_linear(rgb[3])
        x == MulMillion(412456, lr) + MulMillion(357576, lg) + MulMillion(180438, lb)
        y == MulMillion(212673, lr) + MulMillion(715152, lg) + MulMillion(72175, lb)
        z == MulMillion(19334, lr) + MulMillion(119192, lg) + MulMillion(950304, lb)
        fx == LabF(DivMillion(x, WhiteX))
        fy == LabF(y)
        fz == LabF(DivMillion(z, WhiteZ))
    IN  <<(116 * fy - 16 * Million) \div 100,
          (500 * (fx - fy)) \div 100,
          (200 * (fy - fz)) \div 100>>

\* (linear * 255).round() as u8 after the transfer function: the number of
\* thresholds at or below the linear value.
RECURSIVE EncodeBetween(_, _, _)
EncodeBetween(x, lo, hi) ==
    IF lo >= hi
    THEN lo
    ELSE LET mid == (lo + hi) \div 2
         IN  IF SrgbThresholdTable[mid + 1] <= x
             THEN EncodeBetween(x, mid + 1, hi)
             ELSE EncodeBetween(x, lo, mid)

EncodeU8(x) == EncodeBetween(x, 0, 255)

LabToSrgb(lab) ==
    LET fy == (lab[1] * 100 + 16 * Million) \div 116
        fx == fy + (lab[2] * 100) \div 500
        fz == fy - (lab[3] * 100) \div 200
        x == SMul(LabFInv(fx), WhiteX)
        y == LabFInv(fy)
        z == SMul(LabFInv(fz), WhiteZ)
    IN  <<EncodeU8(SMul(3240454, x) + SMul(-1537139, y) + SMul(-498531, z)),
          EncodeU8(SMul(-969266, x) + SMul(1876011, y) + SMul(41556, z)),
          EncodeU8(SMul(55643, x) + SMul(-204026, y) + SMul(1057225, z))>>

(***************************************************************************)
(* Sampling and clustering.                                                *)
(***************************************************************************)
\* ((width * height) as f32).sqrt() as u32: the whole part of the root.
RECURSIVE SqrtFrom(_, _)
SqrtFrom(n, r) == IF (r + 1) * (r + 1) > n THEN r ELSE SqrtFrom(n, r + 1)

sqrt_u32(n) == SqrtFrom(n, 0)

\* The pixel at column x, row y (both from 0) of an image.
get_pixel(image, x, y) == image.data[y * image.width + x + 1]

\* (0..n).step_by(step), in order.
step_by(n, step) == [i \in 1..((n + step - 1) \div step) |-> (i - 1) * step]

\* The positions sample_pixels visits: rows outermost.
GridRows(ys, xs) ==
    [i \in 1..(Len(ys) * Len(xs)) |->
        <<xs[((i - 1) % Len(xs)) + 1], ys[((i - 1) \div Len(xs)) + 1]>>]

\* Skip transparent or very dark pixels.
Skipped(px) == px[4] < 128 \/ (px[1] < 20 /\ px[2] < 20 /\ px[3] < 20)

KeptAt(image, position) == ~Skipped(get_pixel(image, position[1], position[2]))

sample_pixels(image) ==
    LET step == Max(sqrt_u32(image.width * image.height) \div 20, 1)
        positions == GridRows(step_by(image.height, step),
                              step_by(image.width, step))
        kept == SelectSeq(positions, LAMBDA position : KeptAt(image, position))
    IN  [i \in 1..Len(kept) |->
            LET px == get_pixel(image, kept[i][1], kept[i][2])
            IN  SrgbToLab(<<px[1], px[2], px[3]>>)]

\* color_distance(a, b), squared, in hundredths of a Lab unit: the order of
\* two distances is the order of their squares.
color_distance(a, b) ==
    LET dl == Abs(a[1] - b[1]) \div 100
        da == Abs(a[2] - b[2]) \div 100
        db == Abs(a[3] - b[3]) \div 100
    IN  dl * dl + da * da + db * db

\* The least distance from a pixel to the centroids chosen so far.
MinDistance(pixel, centroids) ==
    LET ds == {color_distance(pixel, centroids[j]) : j \in 1..Len(centroids)}
    IN  CHOOSE d \in ds : \A e \in ds : d <= e

\* A max_idx that takes the pixel nearest to the centroids.
max_idx_mutant(pixels, centroids) ==
    LET distances == [i \in 1..Len(pixels) |-> MinDistance(pixels[i], centroids)]
    IN  CHOOSE i \in 1..Len(pixels) :
            \A j \in 1..Len(pixels) :
                distances[j] > distances[i] \/ (distances[j] = distances[i] /\ j <= i)

\* max_by over the distances: the last index among the greatest.
max_idx(pixels, centroids) ==
    LET distances == [i \in 1..Len(pixels) |-> MinDistance(pixels[i], centroids)]
    IN  CHOOSE i \in 1..Len(pixels) :
            \A j \in 1..Len(pixels) :
                distances[j] < distances[i] \/ (distances[j] = distances[i] /\ j <= i)

RECURSIVE PushCentroids(_, _, _)
PushCentroids(pixels, centroids, n) ==
    IF n = 0
    THEN centroids
    ELSE PushCentroids(pixels,
                       Append(centroids, pixels[max_idx(pixels, centroids)]),
                       n - 1)

\* initialize_centroids(pixels, k): pixels[0], then k - 1 more.
initialize_centroids(pixels, k) ==
    PushCentroids(pixels, <<pixels[1]>>, IF k >= 1 THEN k - 1 ELSE 0)

\* A find_nearest_centroid that takes the last index among the least.
find_nearest_centroid_mutant(pixel, centroids) ==
    LET n == Len(centroids)
    IN  IF n = 0
        THEN 1
        ELSE CHOOSE i \in 1..n :
                \A j \in 1..n :
                    LET di == color_distance(pixel, centroids[i])
                        dj == color_distance(pixel, centroids[j])
                    IN  di < dj \/ (di = dj /\ i >= j)

\* find_nearest_centroid: min_by over the distances, the first index among
\* the least.  Indices are from 1 here.
find_nearest_centroid(pixel, centroids) ==
    LET n == Len(centroids)
    IN  IF n = 0
        THEN 1
        ELSE CHOOSE i \in 1..n :
                \A j \in 1..n :
                    LET di == color_distance(pixel, centroids[i])
                        dj == color_distance(pixel, centroids[j])
                    IN  di < dj \/ (di = dj /\ i <= j)

\* The sum of coordinate c of the pixels assigned to a cluster, and their
\* number.
RECURSIVE SumAssigned(_, _, _, _, _)
SumAssigned(pixels, assignments, cluster, c, n) ==
    IF n = 0
    THEN 0
    ELSE (IF assignments[n] = cluster THEN pixels[n][c] ELSE 0)
            + SumAssigned(pixels, assignments, cluster, c, n - 1)

CountAssigned(assignments, cluster) ==
    Cardinality({i \in 1..Len(assignments) : assignments[i] = cluster})

\* An update_centroids that resets a cluster with no pixel to the origin.
update_centroids_mutant(pixels, assignments, centroids) ==
    [i \in 1..Len(centroids) |->
        LET count == CountAssigned(assignments, i)
        IN  IF count > 0
            THEN <<SumAssigned(pixels, assignments, i, 1, Len(pixels)) \div count,
                   SumAssigned(pixels, assignments, i, 2, Len(pixels)) \div count,
                   SumAssigned(pixels, assignments, i, 3, Len(pixels)) \div count>>
            ELSE <<0, 0, 0>>]

\* update_centroids: the mean of the assigned pixels; a cluster with none
\* keeps its centroid.
update_centroids(pixels, assignments, centroids) ==
    [i \in 1..Len(centroids) |->
        LET count == CountAssigned(assignments, i)
        IN  IF count > 0
            THEN <<SumAssigned(pixels, assignments, i, 1, Len(pixels)) \div count,
                   SumAssigned(pixels, assignments, i, 2, Len(pixels)) \div count,
                   SumAssigned(pixels, assignments, i, 3, Len(pixels)) \div count>>
            ELSE centroids[i]]

MaxIterations == 50

\* The rounds of k_means_clustering from round `done` on: the centroids and
\* assignments at the end, the number of rounds that assigned pixels, and
\* whether the last of them changed an assignment.
RECURSIVE Rounds(_, _, _, _)
Rounds(pixels, centroids, assignments, done) ==
    IF done = MaxIterations
    THEN [centroids |-> centroids, assignments |-> assignments, rounds |-> done,
          changed |-> TRUE]
    ELSE LET nearest == [i \in 1..Len(pixels) |->
                            find_nearest_centroid(pixels[i], centroids)]
         IN  IF nearest = assignments
             THEN [centroids |-> centroids, assignments |-> assignments,
                   rounds |-> done + 1, changed |-> FALSE]
             ELSE Rounds(pixels, update_centroids(pixels, nearest, centroids),
                         nearest, done + 1)

Gray == <<128, 128, 128>>

\* k_means_clustering(pixels, k): the colors of the centroids.
k_means_clustering(pixels, k) ==
    IF pixels = <<>>
    THEN [i \in 1..k |-> Gray]
    ELSE LET run == Rounds(pixels, initialize_centroids(pixels, k),
                           [i \in 1..Len(pixels) |-> 1], 0)
         IN  [i \in 1..Len(run.centroids) |-> LabToSrgb(run.centroids[i])]

(***************************************************************************)
(* ColorExtractor::extract_palette                                         *)
(***************************************************************************)
\* usize is scaled down to 0..UsizeMax: the sum of the counts wraps at
\* UsizeMax + 1 as it wraps at 2^64 in a build without overflow checks (a
\* build with them panics at the addition).
UsizeMax == 15

dark_bg == <<20, 20, 20>>

Black == <<0, 0, 0>>

defaults ==
    << <<255, 255, 255>>, <<200, 200, 255>>, <<255, 200, 200>>,
       <<200, 255, 200>>, <<255, 255, 200>> >>

\* The first loop, at index idx of the colors, lightest first: colors with
\* contrast >= 7.0 against the dark background.
RECURSIVE ContrastPass(_, _, _, _)
ContrastPass(colors, idx, info_colors, info_count) ==
    IF idx = 0
    THEN info_colors
    ELSE IF AtLeast(contrast_ratio(colors[idx], dark_bg), 7)
         THEN IF Len(info_colors) + 1 >= info_count
              THEN Append(info_colors, colors[idx])
              ELSE ContrastPass(colors, idx - 1, Append(info_colors, colors[idx]),
                                info_count)
         ELSE ContrastPass(colors, idx - 1, info_colors, info_count)

\* The second loop, at index idx: every color, brightened.
RECURSIVE BrightenPass(_, _, _, _)
BrightenPass(colors, idx, info_colors, info_count) ==
    IF idx <= 0
    THEN info_colors
    ELSE LET pushed == Append(info_colors, ensure_min_brightness(colors[idx], 180))
         IN  IF Len(pushed) >= info_count
             THEN pushed
             ELSE BrightenPass(colors, idx - 1, pushed, info_count)

\* The final loop: it ends when info_count colors are there; past the five
\* defaults it pushes nothing and never ends.
RECURSIVE DefaultsPass(_, _)
DefaultsPass(info_colors, info_count) ==
    IF Len(info_colors) >= info_count
    THEN [terminates |-> TRUE, info_colors |-> info_colors]
    ELSE IF Len(info_colors) < Len(defaults)
         THEN DefaultsPass(Append(info_colors, defaults[Len(info_colors) + 1]),
                           info_count)
         ELSE [terminates |-> FALSE, info_colors |-> info_colors]

\* A lighten that adds 10 to each channel.
lighten_mutant(color) ==
    IF Below(contrast_ratio(color, Black), 2)
    THEN <<Min(color[1] + 10, 255), Min(color[2] + 10, 255),
           Min(color[3] + 10, 255)>>
    ELSE color

\* Lighten a progress color that is too dark against black.
lighten(color) ==
    IF Below(contrast_ratio(color, Black), 2)
    THEN <<Min(color[1] + 100, 255), Min(color[2] + 100, 255),
           Min(color[3] + 100, 255)>>
    ELSE color

\* The three progress colors before they are lightened.
select_progress(colors) ==
    IF Len(colors) >= 3
    THEN <<colors[1], colors[Len(colors) \div 2 + 1], colors[Len(colors)]>>
    ELSE << <<50, 50, 50>>, <<128, 128, 128>>, <<200, 200, 200>> >>

extract_palette(image, progress_count, info_count) ==
    LET pixels == sample_pixels(image)
        total_colors == (progress_count + info_count + 2) % (UsizeMax + 1)
        clusters == k_means_clustering(pixels, total_colors)
        colors == sort_by_brightness(clusters)
        first == ContrastPass(colors, Len(colors), <<>>, info_count)
        second == IF Len(first) < info_count
                  THEN BrightenPass(colors, Len(colors) - Len(first), first,
                                    info_count)
                  ELSE first
        filled == DefaultsPass(second, info_count)
        selected == select_progress(colors)
    IN  [terminates |-> filled.terminates,
         overflow |-> progress_count + info_count + 2 > UsizeMax,
         fallback |-> Len(second) < info_count,
         pixels |-> pixels,
         colors |-> colors,
         selected |-> selected,
         progress_colors |-> [i \in 1..Len(selected) |-> lighten(selected[i])],
         info_colors |-> filled.info_colors]

(***************************************************************************)
(* The state machine of the palette computation: extract_palette applied   *)
(* to a small image.                                                       *)
(***************************************************************************)
MaxPixels == 3

Transparent == <<255, 0, 0, 0>>
NearBlack == <<10, 10, 10, 255>>
Dark == <<50, 50, 50, 255>>
Green == <<50, 100, 50, 255>>
Red == <<255, 0, 0, 255>>
White == <<255, 255, 255, 255>>

PixelValues == {Transparent, NearBlack, Dark, Green, Red, White}

ImageSizes ==
    {s \in (1..MaxPixels) \X (1..MaxPixels) : s[1] * s[2] <= MaxPixels}

\* The 10x10 image of one color of the tests.
create_test_image(width, height, color) ==
    [width |-> width, height |-> height,
     data |-> [i \in 1..(width * height) |-> color]]

\* A row of a mid gray, a pure green and a dark gray pixel: the gray has the
\* higher average of channels, the green the higher luminance.
Silver == <<150, 150, 150, 255>>
Lime == <<0, 255, 0, 255>>

GrayLimeImage == [width |-> 3, height |-> 1, data |-> <<Silver, Lime, Dark>>]

TestImages ==
    UNION {[width : {s[1]}, height : {s[2]},
            data : [1..(s[1] * s[2]) -> PixelValues]] : s \in ImageSizes}
        \cup {create_test_image(10, 10, Red), GrayLimeImage}

ProgressCounts == {0, 3}

InfoCounts == {0, 1, 5, 6}

NoResult ==
    [terminates |-> TRUE, overflow |-> FALSE, fallback |-> FALSE,
     pixels |-> <<>>, colors |-> <<>>, selected |-> <<>>,
     progress_colors |-> <<>>, info_colors |-> <<>>]

PaletteInit ==
    /\ disk = [k \in Keys |-> Missing]
    /\ now = StartTime
    /\ calls = 0
    /\ last = NoCall
    /\ healed = [k \in Keys |-> FALSE]
    /\ stored = [k \in Keys |-> None]
    /\ pal \in [stage : {"input"}, image : TestImages,
                progress_count : ProgressCounts, info_count : InfoCounts,
                result : {NoResult}]
    /\ race = NoRace
    /\ lyr = NoLyrics
    /\ worker = NoWorker

\* A call of ColorExtractor::extract_palette.
ExtractPalette ==
    /\ pal.stage = "input"
    /\ pal' = [pal EXCEPT !.stage = "done",
                          !.result = extract_palette(pal.image, pal.progress_count,
                                                     pal.info_count)]
    /\ UNCHANGED <<cacheVars, race, lyr, worker>>

PaletteNext == ExtractPalette

PaletteSpec == PaletteInit /\ [][PaletteNext]_vars

(***************************************************************************)
(* Two processes that call ImageCache::set on one locator at the same      *)
(* time.  fs::write is File::create, which creates or truncates the file,  *)
(* followed by write_all, which writes the text at the start of the file   *)
(* through the process's own descriptor.  Nothing locks the file.  A file  *)
(* is the sequence of its bytes here.                                      *)
(***************************************************************************)
Writers == {1, 2}

\* The image an artifact was computed from.
ImageOf(value) == value % 10

\* The number of bytes serde_json writes for a member: the artifacts of
\* different images differ in length, a cached_at does not.
ByteLen(member) == IF member[1] = "cached_at" THEN 1 ELSE ImageOf(member[2])

\* The bytes of a text, member after member.
RECURSIVE Bytes(_)
Bytes(text) ==
    IF text = <<>>
    THEN <<>>
    ELSE [j \in 1..ByteLen(text[1]) |-> <<text[1], j>>] \o Bytes(Tail(text))

\* The text read from bytes: the members that start in them.  The bytes are
\* a JSON entry when they are the bytes of that text and the text parses.
TextOf(bytes) ==
    LET starts == SelectSeq(bytes, LAMBDA b : b[2] = 1)
    IN  [i \in 1..Len(starts) |-> starts[i][1]]

from_bytes(bytes) ==
    IF Bytes(TextOf(bytes)) = bytes
    THEN from_str(TextOf(bytes))
    ELSE [ok |-> FALSE, v |-> NoCachedImage]

\* File::create: the file exists and is empty.
create(file) == [exists |-> TRUE, bytes |-> <<>>]

\* write_all through a descriptor at offset 0: the bytes replace the start
\* of the file; what the file holds beyond them stays.
write_all(file, buf) ==
    [exists |-> TRUE,
     bytes |-> buf \o SubSeq(file.bytes, Len(buf) + 1, Len(file.bytes))]

\* The entry and the JSON text a writer passes to fs::write.
EntryOf(w) ==
    LET a == Artifacts(w.img)
    IN  CachedImage(a.pixelated, a.ratatui, a.color_palette, w.t)

JsonOf(w) == Bytes(to_string(EntryOf(w)))

RaceInstants == {StartTime, StartTime + 1}

\* The file of the key before the race: none, or an entry.
RaceFiles ==
    {[exists |-> FALSE, bytes |-> <<>>]}
        \cup {[exists |-> TRUE, bytes |-> Bytes(to_string(c))] : c \in InitEntries}

RaceInit ==
    /\ disk = [k \in Keys |-> Missing]
    /\ now = StartTime
    /\ calls = 0
    /\ last = NoCall
    /\ healed = [k \in Keys |-> FALSE]
    /\ stored = [k \in Keys |-> None]
    /\ pal = NoPalette
    /\ lyr = NoLyrics
    /\ worker = NoWorker
    /\ race \in [stage : {"race"},
                 file : RaceFiles,
                 w : [Writers -> [pc : {"create"}, img : Images, t : RaceInstants]],
                 wrote : {0}]

\* Writer p is at File::create of fs::write.
RaceCreate(p) ==
    /\ race.stage = "race"
    /\ race.w[p].pc = "create"
    /\ race' = [race EXCEPT !.file = create(race.file), !.w[p].pc = "write"]
    /\ UNCHANGED <<cacheVars, pal, lyr, worker>>

\* Writer p is at write_all of fs::write, after which its set returns.
RaceWriteAll(p) ==
    /\ race.stage = "race"
    /\ race.w[p].pc = "write"
    /\ race' = [race EXCEPT !.file = write_all(race.file, JsonOf(race.w[p])),
                            !.w[p].pc = "done",
                            !.wrote = p]
    /\ UNCHANGED <<cacheVars, pal, lyr, worker>>

RaceNext ==
    \/ \E p \in Writers : RaceCreate(p)
    \/ \E p \in Writers : RaceWriteAll(p)

RaceSpec == RaceInit /\ [][RaceNext]_vars

\* Both writers have returned from set.
RaceOver == race.stage = "race" /\ \A p \in Writers : race.w[p].pc = "done"

(***************************************************************************)
(* ImageCache::clear and ImageCache::size next to get and set.  Both walk  *)
(* fs::read_dir(cache_dir) and take the entries whose extension is json,   *)
(* which the file of every key has.                                        *)
(***************************************************************************)
\* The orders in which read_dir can yield the files of a directory.
ReadDirOrders(d) ==
    LET present == {k \in DOMAIN d : d[k].exists}
    IN  {order \in [1..Cardinality(present) -> present] :
            \A k \in present : \E i \in 1..Cardinality(present) : order[i] = k}

\* The ways a walk can end: read_dir fails; a call on entry number `fail`
\* fails (0: none does).
WalkOutcomes(order) ==
    [read_dir : {TRUE}, fail : 0..Len(order)]
        \cup {[read_dir |-> FALSE, fail |-> 0]}

\* entry.metadata()?.len()
FileLen(file) ==
    IF ~file.exists THEN 0
    ELSE IF file.utf8 THEN Len(Bytes(file.text)) ELSE 1

\* A clear that ignores the result of remove_file.
clear_mutant(d, order, outcome) ==
    LET n == IF outcome.fail = 0 THEN Len(order) ELSE outcome.fail - 1
        removed == {order[i] : i \in 1..n}
    IN  IF ~outcome.read_dir
        THEN [ok |-> FALSE, disk |-> d]
        ELSE [ok |-> TRUE,
              disk |-> [k \in DOMAIN d |-> IF k \in removed THEN Missing ELSE d[k]]]

\* ImageCache::clear: remove_file on each entry in turn; the first failure
\* is returned and the entries after it stay.
clear(d, order, outcome) ==
    LET n == IF outcome.fail = 0 THEN Len(order) ELSE outcome.fail - 1
        removed == {order[i] : i \in 1..n}
    IN  IF ~outcome.read_dir
        THEN [ok |-> FALSE, disk |-> d]
        ELSE [ok |-> outcome.fail = 0,
              disk |-> [k \in DOMAIN d |-> IF k \in removed THEN Missing ELSE d[k]]]

RECURSIVE total_size(_, _, _)
total_size(d, order, n) ==
    IF n = 0 THEN 0 ELSE total_size(d, order, n - 1) + FileLen(d[order[n]])

\* ImageCache::size: the sum of the lengths of the entries.
size(d, order, outcome) ==
    IF outcome.read_dir /\ outcome.fail = 0
    THEN [ok |-> TRUE, n |-> total_size(d, order, Len(order))]
    ELSE [ok |-> FALSE, n |-> 0]

\* The files of a key at the start.
ClearFiles ==
    {Missing, BinaryFile,
     TextFile(to_string(CachedImage(12, 22, 32, StartTime)))}

ClearInit ==
    /\ disk \in [Keys -> ClearFiles]
    /\ now = StartTime
    /\ calls = 0
    /\ last = NoCall
    /\ healed = [k \in Keys |-> FALSE]
    /\ stored = [k \in Keys |-> None]
    /\ pal = NoPalette
    /\ race = NoRace
    /\ lyr = NoLyrics
    /\ worker = NoWorker

\* A call of ImageCache::clear.
Clear(order, outcome) ==
    LET r == clear(disk, order, outcome)
    IN  /\ calls < MaxCalls
        /\ calls' = calls + 1
        /\ disk' = r.disk
        /\ last' = [NoCall EXCEPT !.op = "clear", !.t = now, !.ok = r.ok]
        /\ UNCHANGED <<now, healed, stored, otherVars>>

\* A call of ImageCache::size.
Size(order, outcome) ==
    LET r == size(disk, order, outcome)
    IN  /\ calls < MaxCalls
        /\ calls' = calls + 1
        /\ last' = [NoCall EXCEPT !.op = "size", !.t = now, !.ok = r.ok,
                                  !.bytes = r.n]
        /\ UNCHANGED <<disk, now, healed, stored, otherVars>>

ClearNext ==
    \/ \E url \in Locators, rmOk \in BOOLEAN : Get(url, rmOk)
    \/ \E url \in Locators, img \in Images, wr \in WriteOutcomes : Set(url, img, wr)
    \/ \E order \in ReadDirOrders(disk) :
          \E outcome \in WalkOutcomes(order) : Clear(order, outcome)
    \/ \E order \in ReadDirOrders(disk) :
          \E outcome \in WalkOutcomes(order) : Size(order, outcome)

ClearSpec == ClearInit /\ [][ClearNext]_vars

\* No file of any key exists.
NoEntry(d) == \A k \in DOMAIN d : ~d[k].exists

(***************************************************************************)
(* The background worker of main: it builds a DisplayFormatter and a       *)
(* LyricsCache and then polls the player; the lyrics tasks it spawns run    *)
(* next to it.                                                             *)
(***************************************************************************)
\* What the file system allows under HOME: no directory can be created;
\* .cache/trackwatch can; .cache/trackwatch/lyrics can too.
Creatable == {"none", "image", "both"}

\* ImageCache::new: HOME, then create_dir_all(.cache/trackwatch).
ImageCache_new(home, dirs) == home /\ dirs # "none"

\* LyricsCache::new: HOME, then create_dir_all(.cache/trackwatch/lyrics).
LyricsCache_new(home, dirs) == home /\ dirs = "both"

\* An optional triple of artifacts.
NoArt == [some |-> FALSE, v |-> NoArtifacts]

SomeArt(a) == [some |-> TRUE, v |-> a]

Tracks == {1, 2}

\* The art_url the player reports for a track.
ArtUrl(track) == IF track = 1 THEN FileUrl ELSE HttpUrl

\* The player reports a track as artist, title and album; track 1 has an
\* album, track 2 has none.
HasAlbum(track) == track = 1

\* What App::new builds: no art, no metadata, no track, no lyrics.
NewApp ==
    [album_art |-> NoArt, album_art_of |-> 0, album_metadata |-> 0, track |-> 0,
     progress |-> 0, lyrics |-> 0, lyrics_loading |-> FALSE,
     waiting_for_player |-> TRUE]

\* An update_metadata that leaves waiting_for_player alone.
update_metadata_mutant(app, album_art, album_art_of, album_metadata, track, progress) ==
    [app EXCEPT !.album_art = album_art,
                !.album_art_of = album_art_of,
                !.album_metadata = album_metadata,
                !.track = track,
                !.progress = progress]

\* App::update_metadata
update_metadata(app, album_art, album_art_of, album_metadata, track, progress) ==
    [app EXCEPT !.album_art = album_art,
                !.album_art_of = album_art_of,
                !.album_metadata = album_metadata,
                !.track = track,
                !.progress = progress,
                !.waiting_for_player = FALSE]

\* App::update_lyrics
update_lyrics(app, lyrics) ==
    [app EXCEPT !.lyrics = lyrics, !.lyrics_loading = FALSE]

\* App::set_lyrics_loading
set_lyrics_loading(app, loading) == [app EXCEPT !.lyrics_loading = loading]

\* How many lyrics tasks the worker spawns at most.
MaxSpawns == 2

NoTask == [track |-> 0, pc |-> "idle"]

\* How get_album_metadata of the provider can end: metadata with a
\* cover_url, metadata without one, an error.
MetadataOutcomes == {"cover", "no_cover", "error"}

\* The progress the worker computes from position and length.
ProgressValues == {0, 50}

WorkerInit ==
    /\ disk = [k \in Keys |-> Missing]
    /\ now = StartTime
    /\ calls = 0
    /\ last = NoCall
    /\ healed = [k \in Keys |-> FALSE]
    /\ stored = [k \in Keys |-> None]
    /\ pal = NoPalette
    /\ race = NoRace
    /\ lyr = NoLyrics
    /\ worker \in [pc : {"formatter"}, home : BOOLEAN, dirs : Creatable,
                   provider : BOOLEAN,
                   cache_dir : {"unset"}, last_track : {0},
                   cached_art : {NoArt}, cached_art_of : {0},
                   cached_album_metadata : {0},
                   spawned : {0}, tasks : {[n \in 1..MaxSpawns |-> NoTask]},
                   app : {NewApp}]

\* DisplayFormatter::new: the cache, or a stub cache in the temporary
\* directory when ImageCache::new fails.
NewFormatter ==
    /\ worker.pc = "formatter"
    /\ worker' = [worker EXCEPT
                     !.pc = "lyrics_cache",
                     !.cache_dir = IF ImageCache_new(worker.home, worker.dirs)
                                   THEN "home" ELSE "temp"]
    /\ UNCHANGED <<cacheVars, pal, race, lyr>>

\* LyricsCache::new().unwrap(): an error panics the worker thread.
NewLyricsCache ==
    /\ worker.pc = "lyrics_cache"
    /\ worker' = [worker EXCEPT
                     !.pc = IF LyricsCache_new(worker.home, worker.dirs)
                            THEN "loop" ELSE "panicked"]
    /\ UNCHANGED <<cacheVars, pal, race, lyr>>

\* An iteration of the loop in which the player reports a track, with or
\* without an art_url.  On a track change the worker asks the provider, if
\* it has one and the track has an album, fetches the art, sets
\* lyrics_loading and spawns the lyrics task; then it publishes with
\* update_metadata.  cached_art_of and album_art_of record the track for
\* whose locator the art was fetched.
Poll(track, has_art, meta, progress, rmOk, acq, wr) ==
    LET track_changed == worker.last_track # track
        asked == track_changed /\ HasAlbum(track) /\ worker.provider
        from_art_url == track_changed /\ (~asked \/ meta = "error")
        kept == ~track_changed \/ (asked /\ meta = "no_cover")
        fetching == (asked /\ meta = "cover") \/ (from_art_url /\ has_art)
        r == fetch_and_process_all_formats(disk, ArtUrl(track), now, rmOk, acq, wr)
        art == IF kept THEN worker.cached_art
               ELSE IF fetching /\ r.ok THEN SomeArt(r.out)
               ELSE NoArt
        art_of == IF kept THEN worker.cached_art_of
                  ELSE IF fetching /\ r.ok THEN track
                  ELSE 0
        metadata == IF ~track_changed THEN worker.cached_album_metadata
                    ELSE IF asked /\ meta # "error" THEN track
                    ELSE 0
        n == worker.spawned + 1
        loading == IF track_changed
                   THEN set_lyrics_loading(worker.app, TRUE)
                   ELSE worker.app
    IN  /\ worker.pc = "loop"
        /\ track_changed => worker.spawned < MaxSpawns
        /\ asked \/ meta = "cover"
        /\ from_art_url \/ has_art
        /\ (fetching /\ r.rm) \/ rmOk
        /\ (fetching /\ r.acquires > 0) \/ acq = "image"
        /\ (fetching /\ r.setCalled) \/ wr = WholeWrite
        /\ disk' = IF fetching THEN r.disk ELSE disk
        /\ worker' = [worker EXCEPT
                         !.cached_art = art,
                         !.cached_art_of = art_of,
                         !.cached_album_metadata = metadata,
                         !.spawned = IF track_changed THEN n ELSE @,
                         !.tasks = IF track_changed
                                   THEN [@ EXCEPT ![n] = [track |-> track, pc |-> "cache"]]
                                   ELSE @,
                         !.app = update_metadata(loading, art, art_of, metadata,
                                                 track, progress),
                         !.last_track = track]
        /\ UNCHANGED <<now, last, healed, stored, calls, pal, race, lyr>>

\* An iteration of the loop in which no player answers.
PollNoPlayer ==
    /\ worker.pc = "loop"
    /\ worker' = IF worker.last_track # 0
                 THEN [worker EXCEPT
                          !.app = [@ EXCEPT !.waiting_for_player = TRUE,
                                            !.album_art = NoArt,
                                            !.album_art_of = 0,
                                            !.album_metadata = 0,
                                            !.track = 0,
                                            !.progress = 0,
                                            !.lyrics = 0],
                          !.cached_art = NoArt,
                          !.cached_art_of = 0,
                          !.cached_album_metadata = 0,
                          !.last_track = 0]
                 ELSE worker
    /\ UNCHANGED <<cacheVars, pal, race, lyr>>

\* How LyricsCache::get can end for a task: no usable file, a response with
\* lyric text, the cached "not found", a response without lyric text.
CacheLookups == {"miss", "lyrics", "not_found", "no_text"}

\* How get_best_match can end: a response with lyric text, a response
\* without, no match, an error.
ApiResults == {"lyrics", "no_text", "none", "error"}

\* Lyrics task n looks into the lyrics cache.  The parsed lyrics of a track
\* are the number of the track.
TaskCacheGet(n, got) ==
    /\ worker.pc = "loop"
    /\ worker.tasks[n].pc = "cache"
    /\ worker' = [worker EXCEPT
                     !.tasks[n].pc = IF got = "miss" THEN "api" ELSE "done",
                     !.app = IF got = "lyrics"
                             THEN update_lyrics(@, worker.tasks[n].track)
                             ELSE @]
    /\ UNCHANGED <<cacheVars, pal, race, lyr>>

\* Lyrics task n gets the answer of the lyrics service.
TaskApi(n, res) ==
    /\ worker.pc = "loop"
    /\ worker.tasks[n].pc = "api"
    /\ worker' = [worker EXCEPT
                     !.tasks[n].pc = "done",
                     !.app = IF res = "lyrics"
                             THEN update_lyrics(@, worker.tasks[n].track)
                             ELSE IF res = "no_text"
                                  THEN @
                                  ELSE update_lyrics(@, 0)]
    /\ UNCHANGED <<cacheVars, pal, race, lyr>>

WorkerNext ==
    \/ NewFormatter
    \/ NewLyricsCache
    \/ \E track \in Tracks, has_art, rmOk \in BOOLEAN, wr \in WriteOutcomes,
          meta \in MetadataOutcomes, progress \in ProgressValues :
          \E acq \in AcquireOutcomes(ArtUrl(track)) :
              Poll(track, has_art, meta, progress, rmOk, acq, wr)
    \/ PollNoPlayer
    \/ \E n \in 1..MaxSpawns, got \in CacheLookups : TaskCacheGet(n, got)
    \/ \E n \in 1..MaxSpawns, res \in ApiResults : TaskApi(n, res)

WorkerSpec == WorkerInit /\ [][WorkerNext]_vars

(***************************************************************************)
(* lyrics::parser::find_current_line.  A line is its timestamp_ms, an      *)
(* Option<u64>; the text of a line plays no part.                          *)
(***************************************************************************)
NoTime == [some |-> FALSE, ms |-> 0]

SomeTime(ms) == [some |-> TRUE, ms |-> ms]

\* An Option<usize>.
NoIndex == [some |-> FALSE, i |-> 0]

SomeIndex(i) == [some |-> TRUE, i |-> i]

\* The loop over lines.iter().enumerate() from line number n (from 1) on;
\* the index it records is from 0.
RECURSIVE ScanLines(_, _, _, _)
ScanLines(lines, n, position_ms, current_index) ==
    IF n > Len(lines)
    THEN current_index
    ELSE IF lines[n].timestamp_ms.some
         THEN IF lines[n].timestamp_ms.ms <= position_ms
              THEN ScanLines(lines, n + 1, position_ms, SomeIndex(n - 1))
              ELSE current_index
         ELSE ScanLines(lines, n + 1, position_ms, current_index)

\* A find_current_line that takes only lines strictly before the position.
find_current_line_mutant(lyrics, position_ms) ==
    IF ~lyrics.is_synced
    THEN NoIndex
    ELSE ScanLines(lyrics.lines, 1, position_ms - 1, NoIndex)

find_current_line(lyrics, position_ms) ==
    IF ~lyrics.is_synced
    THEN NoIndex
    ELSE ScanLines(lyrics.lines, 1, position_ms, NoIndex)

MaxLines == 3

TimeValues == {NoTime, SomeTime(0), SomeTime(5000), SomeTime(10000)}

Positions == {0, 2500, 5000, 10000, 12000}

LyricLines ==
    UNION {[1..n -> [timestamp_ms : TimeValues]] : n \in 0..MaxLines}

LyricsInit ==
    /\ disk = [k \in Keys |-> Missing]
    /\ now = StartTime
    /\ calls = 0
    /\ last = NoCall
    /\ healed = [k \in Keys |-> FALSE]
    /\ stored = [k \in Keys |-> None]
    /\ pal = NoPalette
    /\ race = NoRace
    /\ worker = NoWorker
    /\ lyr \in [stage : {"input"},
                lyrics : [is_synced : BOOLEAN, lines : LyricLines],
                position_ms : Positions,
                result : {NoIndex}]

\* A call of find_current_line.
FindCurrentLine ==
    /\ lyr.stage = "input"
    /\ lyr' = [lyr EXCEPT !.stage = "done",
                          !.result = find_current_line(lyr.lyrics, lyr.position_ms)]
    /\ UNCHANGED <<cacheVars, pal, race, worker>>

LyricsNext == FindCurrentLine

LyricsSpec == LyricsInit /\ [][LyricsNext]_vars

(***************************************************************************)
(* The state machine of ensure_min_brightness applied to a color.          *)
(***************************************************************************)
ChannelValues == {0, 11, 50, 73, 90, 100, 180, 200, 255}

MinValues == {0, 13, 100, 150, 180, 200, 255}

BrightenInit ==
    /\ disk = [k \in Keys |-> Missing]
    /\ now = StartTime
    /\ calls = 0
    /\ last = NoCall
    /\ healed = [k \in Keys |-> FALSE]
    /\ stored = [k \in Keys |-> None]
    /\ race = NoRace
    /\ lyr = NoLyrics
    /\ worker = NoWorker
    /\ pal \in [stage : {"color"},
                color : ChannelValues \X ChannelValues \X ChannelValues,
                min_value : MinValues,
                out : {<<0, 0, 0>>}]

\* A call of ColorExtractor::ensure_min_brightness.
EnsureMinBrightness ==
    /\ pal.stage = "color"
    /\ pal' = [pal EXCEPT !.stage = "brightened",
                          !.out = ensure_min_brightness(pal.color, pal.min_value)]
    /\ UNCHANGED <<cacheVars, race, lyr, worker>>

BrightenNext == EnsureMinBrightness

BrightenSpec == BrightenInit /\ [][BrightenNext]_vars

(***************************************************************************)
(* The cache over locators that differ only in letter case or in the query *)
(* string.                                                                 *)
(***************************************************************************)
CaseKeys == {generate_cache_key(url) : url \in CaseLocators}

\* The files of these keys at the start: none, an empty file, an entry.
CaseFiles ==
    {Missing, TextFile(<<>>),
     TextFile(to_string(CachedImage(12, 22, 32, SecondsPerDay)))}

CaseInit ==
    /\ disk \in [CaseKeys -> CaseFiles]
    /\ now = StartTime
    /\ calls = 0
    /\ last = NoCall
    /\ healed = [k \in CaseKeys |-> FALSE]
    /\ stored = [k \in CaseKeys |-> None]
    /\ pal = NoPalette
    /\ race = NoRace
    /\ lyr = NoLyrics
    /\ worker = NoWorker

CaseNext ==
    \/ \E url \in CaseLocators, rmOk \in BOOLEAN : Get(url, rmOk)
    \/ \E url \in CaseLocators, img \in Images, wr \in WriteOutcomes :
          Set(url, img, wr)

CaseSpec == CaseInit /\ [][CaseNext]_vars

(***************************************************************************)
(* Properties of the cache and the pipeline.                               *)
(***************************************************************************)
LastKey == generate_cache_key(last.url)

\* The entries a file of the directory can hold.
Entries ==
    {CachedImage(a.pixelated, a.ratatui, a.color_palette, c) :
        a \in {Artifacts(i) : i \in Images},
        c \in InitCachedAts \cup Instants}

\* The file holds exactly the serialized entry c.
Holds(file, c) == file = TextFile(to_string(c))

\* The age of an entry stamped cached_at, at time t, is 31 days or more.
Aged31Days(cached_at, t) ==
    cached_at <= t /\ t - cached_at >= 31 * SecondsPerDay

\* What a get made now would return for a locator.
Lookup(url) == get(disk, url, now, TRUE).ret

TypeOK ==
    /\ now \in Instants
    /\ calls \in 0..MaxCalls
    /\ \A k \in Keys :
          \/ disk[k] \in {Missing, BinaryFile}
          \/ \E c \in Entries, n \in 0..4 :
                disk[k] = TextFile(SubSeq(to_string(c), 1, n))

\* C1: ImageCache::get returns the stored entry exactly when the file of the
\* key exists, is readable, holds an entry and that entry is not expired; in
\* every other case (missing, unreadable, unparseable, expired) it returns
\* None.  It has no other outcome.
C1_GetReturnsEntryOrNone ==
    last.op = "get" =>
        /\ \A c \in Entries :
              Holds(last.pre, c) /\ ~Aged31Days(c.cached_at, last.t)
                  => last.ret = Some(c)
        /\ (~\E c \in Entries :
                Holds(last.pre, c) /\ ~Aged31Days(c.cached_at, last.t))
              => last.ret = None

\* A get returned an entry found at the start, and gets returned None for a
\* missing, an unreadable, an unparseable and an expired file.
C1_Witness ==
    /\ last.op = "get"
    /\ last.ret.some
    /\ last.ret.v.cached_at = SecondsPerDay

\* C2 as stated: a get that finds the file unparseable or expired returns None
\* and the file no longer exists afterwards.
C2_FileGoneAfterGet ==
    (last.op = "get" /\ (Unparseable(last.pre) \/ Expired(last.pre, last.t)))
        => (last.ret = None /\ ~disk[LastKey].exists)

\* C2 amended: such a get returns None and calls remove_file; the file no
\* longer exists afterwards unless that removal failed, in which case it is
\* left as it was; either way every following get on the locator returns
\* None until a set on it.
C2_GetHealsOrStaysAbsent ==
    /\ (last.op = "get" /\ (Unparseable(last.pre) \/ Expired(last.pre, last.t)))
          => /\ last.ret = None
             /\ last.rm
             /\ last.rmOk => ~disk[LastKey].exists
             /\ ~last.rmOk => disk[LastKey] = last.pre
    /\ (last.op = "get" /\ last.preHealed) => last.ret = None
    /\ \A u \in Locators : healed[generate_cache_key(u)] => Lookup(u) = None

\* A second get on a key whose unparseable or expired file an earlier get
\* removed.
C2_Witness ==
    /\ last.op = "get"
    /\ last.preHealed
    /\ ~last.pre.exists
    /\ last.ret = None

\* C3 as stated: a get that finds the file unreadable returns None and deletes
\* the file.
C3_UnreadableFileDeleted ==
    (last.op = "get" /\ Unreadable(last.pre))
        => (last.ret = None /\ ~disk[LastKey].exists)

\* C4: is_expired(cached_at) at time now is true exactly when cached_at <= now
\* and the age is at least 31 * 86400 seconds; so an entry aged 30 days, or 30
\* days and less than one day more, is not expired, one aged 31 days is, and
\* one stamped in the future never is.  Stated of every entry in the
\* directory, and of the outcome of every get that parsed one.
C4_ExpiredFrom31Days ==
    /\ \A k \in Keys, c \in Entries :
          Holds(disk[k], c)
              => (is_expired(c.cached_at, now) <=> Aged31Days(c.cached_at, now))
    /\ \A c \in Entries :
          (last.op = "get" /\ Holds(last.pre, c))
              => /\ (last.ret = None) <=> Aged31Days(c.cached_at, last.t)
                 /\ last.t - c.cached_at = 30 * SecondsPerDay => last.ret.some
                 /\ last.t - c.cached_at = 31 * SecondsPerDay - 1 => last.ret.some
                 /\ last.t - c.cached_at = 31 * SecondsPerDay => ~last.ret.some
                 /\ c.cached_at > last.t => last.ret.some

\* A get returned an entry aged 31 days less one second, and one aged
\* exactly 30 days.
C4_Witness ==
    /\ last.op = "get"
    /\ last.ret.some
    /\ last.t - last.ret.v.cached_at = 31 * SecondsPerDay - 1

\* C5: after a successful set(locator, pixelated, grid, palette) at time t,
\* whether or not the key had a file, a get at that or any later time at which
\* the entry is not expired, with no set on the key in between, returns the
\* entry made of exactly those three artifacts and cached_at = t.
C5_SetThenGet ==
    /\ (last.op = "set" /\ last.setOk)
          => /\ last.arg.cached_at = last.t
             /\ ~Aged31Days(last.t, now) => Lookup(last.url) = Some(last.arg)
    /\ (last.op \in {"get", "fetch"} /\ last.preStored.some
            /\ ~Aged31Days(last.preStored.v.cached_at, last.t))
          => last.ret = last.preStored
    /\ \A u \in Locators :
          LET s == stored[generate_cache_key(u)]
          IN  (s.some /\ ~Aged31Days(s.v.cached_at, now)) => Lookup(u) = s

\* A get, later than the set, returned the entry of a set.
C5_Witness ==
    /\ last.op = "get"
    /\ last.preStored.some
    /\ last.t > last.preStored.v.cached_at
    /\ last.ret = last.preStored

\* C6: when the cache holds a readable, parseable, unexpired entry for the
\* locator, fetch_and_process_all_formats returns its three artifacts; the
\* image is not loaded, set is not called and the file is left as it was, its
\* cached_at included.
C6_HitReturnsCached ==
    \A c \in Entries :
        (last.op = "fetch" /\ Holds(last.pre, c)
            /\ ~Aged31Days(c.cached_at, last.t))
          => /\ last.ok
             /\ last.out = TripleOf(c)
             /\ last.acquires = 0
             /\ ~last.setCalled
             /\ disk[LastKey] = last.pre

\* A call answered from the cache with artifacts other than those the image
\* at the locator would give now.
C6_Witness ==
    /\ last.op = "fetch"
    /\ last.ret.some
    /\ last.ok
    /\ last.out # Artifacts(ImageAt(last.url))

\* C7: if loading the image fails (opening the local file, the HTTP fetch,
\* reading the body, decoding), fetch_and_process_all_formats returns an
\* error, has tried the load once, and has created or changed no entry of
\* the locator: set was not called, the file is as the lookup left it, and a
\* get finds no entry.
C7_LoadFailureIsAnError ==
    (last.op = "fetch" /\ last.acq \notin {"none", "image"})
        => /\ ~last.ok
           /\ last.acquires = 1
           /\ ~last.setCalled
           /\ \/ disk[LastKey] = last.pre
              \/ last.rm /\ ~disk[LastKey].exists
           /\ Lookup(last.url) = None

\* A remote image that did not decode.
C7_Witness ==
    /\ last.op = "fetch"
    /\ last.acq = "decode"
    /\ ~last.ok

\* C8: if ImageCache::set fails after the artifacts were computed,
\* fetch_and_process_all_formats still returns Ok with the artifacts just
\* computed from the loaded image.
C8_StoreFailureNotFatal ==
    (last.op = "fetch" /\ last.setCalled /\ ~last.setOk)
        => /\ last.ok
           /\ last.out = Artifacts(ImageAt(last.url))

\* The store failed after truncating the file, and the call returned Ok.
C8_Witness ==
    /\ last.op = "fetch"
    /\ last.setCalled
    /\ ~last.setOk
    /\ Unparseable(disk[LastKey])
    /\ last.ok

(***************************************************************************)
(* Properties of the palette.                                              *)
(***************************************************************************)
\* C9: for any image and any requested info_count, extract_palette returns
\* exactly 3 progress colors, whatever progress_count is, and exactly
\* info_count info colors.
C9_PaletteShape ==
    pal.stage = "done" =>
        /\ pal.result.terminates
        /\ Len(pal.result.progress_colors) = 3
        /\ Len(pal.result.info_colors) = pal.info_count

\* C10: the three progress colors of a returned palette are ordered darkest
\* to lightest by brightness, also after the ones with contrast below 2.0
\* against black have been lightened by 100.
C10_ProgressOrdered ==
    pal.stage = "done" =>
        /\ calculate_brightness(pal.result.progress_colors[1])
               <= calculate_brightness(pal.result.progress_colors[2])
        /\ calculate_brightness(pal.result.progress_colors[2])
               <= calculate_brightness(pal.result.progress_colors[3])

\* C11: each of the 3 progress colors has contrast >= 2.0 against black: a
\* selected color below 2.0 is replaced by itself plus 100 on each channel,
\* clamped at 255, a color at or above 2.0 is left unchanged, and the
\* replacement reaches the threshold.
C11_ProgressVisibleOnBlack ==
    pal.stage = "done" =>
        \A i \in 1..3 :
            LET s == pal.result.selected[i]
                p == pal.result.progress_colors[i]
            IN  /\ AtLeast(contrast_ratio(p, Black), 2)
                /\ Below(contrast_ratio(s, Black), 2) =>
                      p = <<Min(s[1] + 100, 255), Min(s[2] + 100, 255),
                            Min(s[3] + 100, 255)>>
                /\ AtLeast(contrast_ratio(s, Black), 2) => p = s

\* A palette from clusters of the image itself in which one selected color
\* was lightened and another was kept.
C11_Witness ==
    /\ pal.stage = "done"
    /\ Len(pal.result.colors) >= 3
    /\ \E i, j \in 1..3 :
          /\ Below(contrast_ratio(pal.result.selected[i], Black), 2)
          /\ pal.result.progress_colors[i] # pal.result.selected[i]
          /\ AtLeast(contrast_ratio(pal.result.selected[j], Black), 2)

\* channel-average brightness > 0.7, on the scale of calculate_brightness.
Brighter07(color) == 10 * calculate_brightness(color) > 7 * 3 * 255

\* C12: in a palette extracted with 3 progress and 5 info colors, as for the
\* solid red 10x10 image, each info color has contrast >= 7.0 against
\* (20,20,20) or channel-average brightness > 0.7.
C12_InfoColorsReadable ==
    (pal.stage = "done" /\ pal.progress_count = 3 /\ pal.info_count = 5) =>
        \A i \in 1..Len(pal.result.info_colors) :
            \/ AtLeast(contrast_ratio(pal.result.info_colors[i], dark_bg), 7)
            \/ Brighter07(pal.result.info_colors[i])

\* C12 for the solid red 10x10 image alone.
C12_SolidRedReadable ==
    pal.image = create_test_image(10, 10, Red) => C12_InfoColorsReadable

(***************************************************************************)
(* Properties of concurrent writers.                                       *)
(***************************************************************************)
\* C13: when two processes set the same locator at the same time, then once
\* both have returned the file is exactly the complete entry of the one
\* that wrote last, never a mixture or an unparseable file.
C13_LastWriteWins ==
    RaceOver =>
        /\ race.file.bytes = JsonOf(race.w[race.wrote])
        /\ from_bytes(race.file.bytes).ok

(***************************************************************************)
(* Properties of the keys.                                                 *)
(***************************************************************************)
\* C14: an entry is keyed by the exact locator string: the same locator has
\* the same key, locators that differ in letter case or query string have
\* different keys, and a get or set on one locator never creates, changes
\* or deletes the file of another locator nor changes what a lookup of
\* another locator returns.
C14_LocatorsIndependent ==
    [][/\ \A u, v \in CaseLocators :
              (generate_cache_key(u) = generate_cache_key(v)) <=> (u = v)
       /\ \A v \in CaseLocators :
              v # last'.url =>
                  /\ disk'[generate_cache_key(v)] = disk[generate_cache_key(v)]
                  /\ get(disk', v, now', TRUE).ret = get(disk, v, now, TRUE).ret]_vars

\* A set has replaced the entry of one locator while the locator that
\* differs from it in letter case only still has its own entry.
C14_Witness ==
    /\ last.op = "set" /\ last.setOk /\ last.url = LowerUrl
    /\ last.pre.exists
    /\ last.pre # disk[generate_cache_key(LowerUrl)]
    /\ disk[generate_cache_key(UpperUrl)] =
          TextFile(to_string(CachedImage(12, 22, 32, SecondsPerDay)))

\* The values of a sequence.
Range(seq) == {seq[i] : i \in 1..Len(seq)}

\* The number of cluster colors extract_palette asks for.
TotalColors == pal.progress_count + pal.info_count + 2

C16_MinBrightnessReached ==
    pal.stage = "brightened" =>
        LET c == pal.color
            out == pal.out
            min == pal.min_value
        IN  /\ \E i \in 1..3 : out[i] >= min
            /\ c = <<0, 0, 0>> /\ min > 0 => out = <<min, min, min>>
            /\ (\E i \in 1..3 : c[i] >= min) =>
                  \A i \in 1..3 :
                      /\ out[i] = Max(c[i], min \div 2)
                      /\ c[i] >= min => out[i] = c[i]
            /\ (\A i \in 1..3 : c[i] < min) =>
                  Max(Max(out[1], out[2]), out[3]) = min

\* C17: when no pixel survives sampling, extract_palette is not an error:
\* clustering gives k times mid-gray and the info colors are the static
\* list (white, light blue, light red, light green, light yellow) in order.
C17_DegenerateUsesDefaults ==
    (pal.stage = "done" /\ pal.result.pixels = <<>>) =>
        /\ pal.result.terminates
        /\ Len(pal.result.colors) = TotalColors
        /\ Range(pal.result.colors) = {Gray}
        /\ pal.info_count <= Len(defaults) =>
              pal.result.info_colors = SubSeq(defaults, 1, pal.info_count)

(***************************************************************************)
(* Properties of clear and size.                                           *)
(***************************************************************************)
\* C18: after clear has returned Ok no cache entry remains, and as long as
\* no set runs none appears: every get returns None and every size that
\* succeeds returns 0.
C18_ClearEmptiesCache ==
    [][/\ (last'.op = "clear" /\ last'.ok) => NoEntry(disk')
       /\ (NoEntry(disk) /\ last'.op \in {"get", "size", "clear"}) =>
             /\ NoEntry(disk')
             /\ last'.op = "get" => last'.ret = None
             /\ (last'.op = "size" /\ last'.ok) => last'.bytes = 0
             /\ \A url \in Locators : get(disk', url, now', TRUE).ret = None]_vars

\* A successful clear right after a successful set.
C18_Witness ==
    /\ last.op = "clear" /\ last.ok
    /\ \E k \in Keys : stored[k] # None
    /\ NoEntry(disk)

(***************************************************************************)
(* Properties of the worker.                                               *)
(***************************************************************************)
\* C19: if HOME is not set or the cache directory cannot be created, the
\* image cache degrades to the temporary directory and the worker stays
\* available: it goes on to run its polling loop.
C19_WorkerSurvivesCacheFailure ==
    /\ (worker.pc \in {"lyrics_cache", "loop", "panicked"}
          /\ ~ImageCache_new(worker.home, worker.dirs)) =>
             worker.cache_dir = "temp"
    /\ worker.cache_dir = "temp" => worker.pc # "panicked"

(***************************************************************************)
(* Properties of the lyrics lookup.                                        *)
(***************************************************************************)
\* The numbers (from 1) of the timestamped lines.
Timed(lines) == {n \in 1..Len(lines) : lines[n].timestamp_ms.some}

\* The timestamped lines are in ascending order.
Ascending(lines) ==
    \A m, n \in Timed(lines) :
        m < n => lines[m].timestamp_ms.ms <= lines[n].timestamp_ms.ms

\* The timestamped lines at or before a position.
Reached(lines, position_ms) ==
    {n \in Timed(lines) : lines[n].timestamp_ms.ms <= position_ms}

\* C20: find_current_line returns None when the lyrics are not synced, have
\* no lines, or the position is before the first timestamp; otherwise, when
\* the timestamped lines are in ascending order, it returns the index of
\* the last line whose timestamp is <= the position.
C20_CurrentLineIsLastReached ==
    lyr.stage = "done" =>
        LET lines == lyr.lyrics.lines
            pos == lyr.position_ms
            reached == Reached(lines, pos)
        IN  /\ ~lyr.lyrics.is_synced => lyr.result = NoIndex
            /\ lines = <<>> => lyr.result = NoIndex
            /\ (\E n \in Timed(lines) :
                   /\ \A m \in Timed(lines) : n <= m
                   /\ pos < lines[n].timestamp_ms.ms) => lyr.result = NoIndex
            /\ (lyr.lyrics.is_synced /\ Ascending(lines) /\ reached # {}) =>
                  \E n \in reached :
                      /\ \A m \in reached : m <= n
                      /\ lyr.result = SomeIndex(n - 1)

\* Synced lyrics in ascending order where the position is exactly at the
\* second timestamp and before the third.
C20_Witness ==
    /\ lyr.stage = "done"
    /\ lyr.lyrics.is_synced
    /\ Len(lyr.lyrics.lines) = 3
    /\ Timed(lyr.lyrics.lines) = {1, 2, 3}
    /\ Ascending(lyr.lyrics.lines)
    /\ lyr.lyrics.lines[2].timestamp_ms.ms = lyr.position_ms
    /\ lyr.lyrics.lines[3].timestamp_ms.ms > lyr.position_ms
    /\ lyr.result = SomeIndex(1)

(***************************************************************************)
(* lyrics::parser::parse_lrc.  A text is the sequence of its characters,   *)
(* each a one-character string; "U+0663" stands for the one character      *)
(* ARABIC-INDIC DIGIT THREE, a decimal digit that is not an ASCII digit.   *)
(***************************************************************************)
Newline == "\n"

AsciiDigits == {"0", "1", "5"}

\* \d of the regex crate is Unicode-aware: it is \p{Nd}.
DecimalDigits == AsciiDigits \union {"U+0663"}

\* char::is_whitespace, which \s and str::trim use.
WhiteSpace == {" "}

DigitValue(c) == IF c = "1" THEN 1 ELSE IF c = "5" THEN 5 ELSE 0

\* An Option<u64> from str::parse of two characters: only ASCII digits parse.
ParseTwo(c1, c2) ==
    IF c1 \in AsciiDigits /\ c2 \in AsciiDigits
    THEN SomeTime(10 * DigitValue(c1) + DigitValue(c2))
    ELSE NoTime

\* str::lines: the pieces between line feeds; a final empty piece is not a
\* line.
RECURSIVE SplitLines(_, _)
SplitLines(text, piece) ==
    IF text = <<>>
    THEN IF piece = <<>> THEN <<>> ELSE <<piece>>
    ELSE IF Head(text) = Newline
         THEN <<piece>> \o SplitLines(Tail(text), <<>>)
         ELSE SplitLines(Tail(text), Append(piece, Head(text)))

lines(text) == SplitLines(text, <<>>)

\* The text without its leading white space: what \s* leaves to (.*).
RECURSIVE trim_start(_)
trim_start(text) ==
    IF text # <<>> /\ Head(text) \in WhiteSpace
    THEN trim_start(Tail(text))
    ELSE text

\* The regular expression ^\[(\d{2}):(\d{2})\.(\d{2})\]\s*(.*)$ matches.
captures(line) ==
    /\ Len(line) >= 10
    /\ line[1] = "[" /\ line[4] = ":" /\ line[7] = "." /\ line[10] = "]"
    /\ \A i \in {2, 3, 5, 6, 8, 9} : line[i] \in DecimalDigits

\* An Option<LyricLine>.
NoLine == [some |-> FALSE, timestamp_ms |-> NoTime, text |-> <<>>]

SomeLine(timestamp_ms, text) ==
    [some |-> TRUE, timestamp_ms |-> timestamp_ms, text |-> text]

\* A parse_lrc_line that does not look at the first character of a line
\* the expression does not match.
parse_lrc_line_mutant(line) ==
    IF captures(line)
    THEN LET minutes == ParseTwo(line[2], line[3])
             seconds == ParseTwo(line[5], line[6])
             centiseconds == ParseTwo(line[8], line[9])
         IN  IF ~minutes.some \/ ~seconds.some \/ ~centiseconds.some
             THEN NoLine
             ELSE SomeLine(SomeTime(minutes.ms * 60 * 1000 + seconds.ms * 1000
                                        + centiseconds.ms * 10),
                           trim_start(SubSeq(line, 11, Len(line))))
    ELSE IF trim_start(line) # <<>>
         THEN SomeLine(NoTime, line)
         ELSE NoLine

parse_lrc_line(line) ==
    IF captures(line)
    THEN LET minutes == ParseTwo(line[2], line[3])
             seconds == ParseTwo(line[5], line[6])
             centiseconds == ParseTwo(line[8], line[9])
         IN  IF ~minutes.some \/ ~seconds.some \/ ~centiseconds.some
             THEN NoLine
             ELSE SomeLine(SomeTime(minutes.ms * 60 * 1000 + seconds.ms * 1000
                                        + centiseconds.ms * 10),
                           trim_start(SubSeq(line, 11, Len(line))))
    ELSE IF trim_start(line) # <<>> /\ line[1] # "["
         THEN SomeLine(NoTime, line)
         ELSE NoLine

\* The order of the sort keys timestamp_ms.unwrap_or(u64::MAX): a line
\* without a timestamp has the largest key there is, and no timestamp the
\* parser computes reaches it.
KeyLessThan(a, b) ==
    a.timestamp_ms.some /\ (~b.timestamp_ms.some \/ a.timestamp_ms.ms < b.timestamp_ms.ms)

\* sort_by_key is a stable sort: a line goes behind the lines whose key is
\* not greater than its own.
RECURSIVE InsertByKey(_, _)
InsertByKey(sorted, line) ==
    IF sorted = <<>>
    THEN <<line>>
    ELSE IF KeyLessThan(line, Head(sorted))
         THEN <<line>> \o sorted
         ELSE <<Head(sorted)>> \o InsertByKey(Tail(sorted), line)

RECURSIVE sort_by_key(_)
sort_by_key(ls) ==
    IF ls = <<>>
    THEN <<>>
    ELSE InsertByKey(sort_by_key(SubSeq(ls, 1, Len(ls) - 1)), ls[Len(ls)])

\* The loop of parse_lrc: the lines parse_lrc_line accepts, in order.
RECURSIVE PushParsed(_)
PushParsed(ls) ==
    IF ls = <<>>
    THEN <<>>
    ELSE LET parsed == parse_lrc_line(Head(ls))
         IN  (IF parsed.some
              THEN <<[timestamp_ms |-> parsed.timestamp_ms, text |-> parsed.text]>>
              ELSE <<>>) \o PushParsed(Tail(ls))

parse_lrc(lrc_content) ==
    LET sorted == sort_by_key(PushParsed(lines(lrc_content)))
    IN  [is_synced |-> \E n \in 1..Len(sorted) : sorted[n].timestamp_ms.some,
         lines |-> sorted]

\* The timestamp tag [m1m2:s1s2.c1c2].
Stamp(m1, m2, s1, s2, c1, c2) == <<"[", m1, m2, ":", s1, s2, ".", c1, c2, "]">>

MaxLrcLines == 3

\* The lines of the contents: timestamped lines with and without text, plain
\* lines, an empty and a blank line, a metadata tag, a timestamp with a
\* one-digit minute, a timestamp of non-ASCII digits and a timestamp behind
\* a space.
LrcLines ==
    { Stamp("0", "0", "1", "0", "0", "0") \o <<" ", "a">>,
      Stamp("0", "0", "0", "5", "5", "0") \o <<"b">>,
      Stamp("0", "1", "0", "0", "0", "0"),
      <<"a">>,
      <<"b", " ", "a">>,
      <<>>,
      <<" ">>,
      <<"[", "a", ":", "b", "]">>,
      <<"[", "1", ":", "0", "0", ".", "0", "0", "]", "a">>,
      Stamp("U+0663", "0", "0", "0", "0", "0") \o <<"a">>,
      <<" ">> \o Stamp("0", "0", "0", "0", "0", "0") \o <<"a">> }

\* The lines joined by line feeds.
RECURSIVE JoinLines(_)
JoinLines(ls) ==
    IF ls = <<>>
    THEN <<>>
    ELSE IF Len(ls) = 1
         THEN ls[1]
         ELSE ls[1] \o <<Newline>> \o JoinLines(Tail(ls))

LrcContents ==
    {JoinLines(ls) : ls \in UNION {[1..n -> LrcLines] : n \in 0..MaxLrcLines}}

NoParsed == [is_synced |-> FALSE, lines |-> <<>>]

ParseInit ==
    /\ disk = [k \in Keys |-> Missing]
    /\ now = StartTime
    /\ calls = 0
    /\ last = NoCall
    /\ healed = [k \in Keys |-> FALSE]
    /\ stored = [k \in Keys |-> None]
    /\ pal = NoPalette
    /\ race = NoRace
    /\ worker = NoWorker
    /\ lyr \in [stage : {"content"}, lrc_content : LrcContents, parsed : {NoParsed}]

\* A call of parse_lrc.
ParseLrc ==
    /\ lyr.stage = "content"
    /\ lyr' = [lyr EXCEPT !.stage = "parsed", !.parsed = parse_lrc(lyr.lrc_content)]
    /\ UNCHANGED <<cacheVars, pal, race, worker>>

ParseNext == ParseLrc

ParseSpec == ParseInit /\ [][ParseNext]_vars

(***************************************************************************)
(* Properties of parse_lrc.                                                *)
(***************************************************************************)
\* A line of the form [MM:SS.cc]text, MM, SS and cc two ASCII digits each.
TimestampForm(line) ==
    /\ Len(line) >= 10
    /\ line[1] = "[" /\ line[4] = ":" /\ line[7] = "." /\ line[10] = "]"
    /\ \A i \in {2, 3, 5, 6, 8, 9} : line[i] \in AsciiDigits

\* A line that has a character other than white space.
NonBlank(line) == \E i \in 1..Len(line) : line[i] \notin WhiteSpace

\* A plain line: one that does not open with a bracket.
PlainForm(line) == NonBlank(line) /\ line[1] # "["

\* The milliseconds of a line of the timestamp form.
MillisOf(line) ==
    (10 * DigitValue(line[2]) + DigitValue(line[3])) * 60000
        + (10 * DigitValue(line[5]) + DigitValue(line[6])) * 1000
        + (10 * DigitValue(line[8]) + DigitValue(line[9])) * 10

\* How many members of a sequence satisfy Test.
CountIn(s, Test(_)) == Cardinality({n \in 1..Len(s) : Test(s[n])})

\* C21: parse_lrc keeps every line of the form [MM:SS.cc]text and every
\* non-empty plain line and nothing else (blank lines and bracketed tags
\* are dropped); the timestamped lines come first, in nondecreasing order
\* of timestamp, each timestamp as often as the content has it; the lines
\* without timestamp follow, and they are the plain lines of the content in
\* their order; is_synced is true exactly when a kept line has a timestamp.
C21_ParseLrcKeepsAndOrders ==
    lyr.stage = "parsed" =>
        LET input == lines(lyr.lrc_content)
            out == lyr.parsed.lines
            timed == SelectSeq(input, TimestampForm)
            plain == SelectSeq(input, PlainForm)
            IsTimed(l) == l.timestamp_ms.some
            IsUntimed(l) == ~l.timestamp_ms.some
        IN  /\ Len(out) = Len(timed) + Len(plain)
            /\ \A n \in 1..Len(out) : IsTimed(out[n]) <=> n <= Len(timed)
            /\ \A n \in 1..(Len(timed) - 1) :
                   out[n].timestamp_ms.ms <= out[n + 1].timestamp_ms.ms
            /\ \A m \in 1..Len(timed) :
                   LET SameStamp(l) == TimestampForm(l) /\ MillisOf(l) = MillisOf(timed[m])
                       SameTime(l) == l.timestamp_ms = SomeTime(MillisOf(timed[m]))
                   IN  CountIn(input, SameStamp) = CountIn(out, SameTime)
            /\ \A n \in 1..Len(plain) :
                   out[Len(timed) + n] = [timestamp_ms |-> NoTime, text |-> plain[n]]
            /\ lyr.parsed.is_synced <=> timed # <<>>

\* A content of a plain line, a later timestamp and an earlier one: the
\* timestamps are put in order and the plain line goes last.
C21_Witness ==
    /\ lyr.stage = "parsed"
    /\ Len(lines(lyr.lrc_content)) = 3
    /\ PlainForm(lines(lyr.lrc_content)[1])
    /\ TimestampForm(lines(lyr.lrc_content)[2])
    /\ TimestampForm(lines(lyr.lrc_content)[3])
    /\ MillisOf(lines(lyr.lrc_content)[2]) > MillisOf(lines(lyr.lrc_content)[3])
    /\ lyr.parsed.is_synced
    /\ Len(lyr.parsed.lines) = 3
    /\ lyr.parsed.lines[1].timestamp_ms = SomeTime(MillisOf(lines(lyr.lrc_content)[3]))
    /\ ~lyr.parsed.lines[3].timestamp_ms.some

(***************************************************************************)
(* Properties of the two passes that select info_colors.                   *)
(***************************************************************************)
\* The candidates, i.e. the positions of the sorted colors, that pass the
\* contrast test, brightest first.
RECURSIVE Passing(_, _)
Passing(colors, idx) ==
    IF idx = 0
    THEN <<>>
    ELSE (IF AtLeast(contrast_ratio(colors[idx], dark_bg), 7) THEN <<idx>> ELSE <<>>)
             \o Passing(colors, idx - 1)

\* The candidates the first pass accepts.
Accepted(colors, info_count) ==
    LET passing == Passing(colors, Len(colors))
    IN  SubSeq(passing, 1, Min(info_count, Len(passing)))

\* The candidates the first pass did not accept, brightest first.
RECURSIVE Unaccepted(_, _, _)
Unaccepted(colors, info_count, idx) ==
    IF idx = 0
    THEN <<>>
    ELSE (IF \E n \in 1..Len(Accepted(colors, info_count)) :
                 Accepted(colors, info_count)[n] = idx
          THEN <<>> ELSE <<idx>>) \o Unaccepted(colors, info_count, idx - 1)

\* C22: when fewer than info_count candidates pass the contrast test, the
\* info colors are the accepted candidates followed by the brightened
\* candidates that were not accepted, taken from brighter to darker with
\* none passed over: no candidate is used twice.
C22_BrightenTakesUnaccepted ==
    (pal.stage = "done" /\ pal.result.terminates) =>
        LET colors == pal.result.colors
            accepted == Accepted(colors, pal.info_count)
            rest == Unaccepted(colors, pal.info_count, Len(colors))
            need == pal.info_count - Len(accepted)
        IN  need > 0 =>
                /\ Len(pal.result.info_colors) = pal.info_count
                /\ \A n \in 1..Len(accepted) :
                       pal.result.info_colors[n] = colors[accepted[n]]
                /\ \A n \in 1..Min(need, Len(rest)) :
                       pal.result.info_colors[Len(accepted) + n]
                           = ensure_min_brightness(colors[rest[n]], 180)

(***************************************************************************)
(* The state machine of the clustering: k_means_clustering applied to a    *)
(* few samples, here grays, for k clusters.                                *)
(***************************************************************************)
MaxSamples == 5

\* The Lab samples: L* 10, 54, 56 and 100 of the gray axis.  Of the samples
\* 10, 100, 54, 56, 56 the third moves to the other cluster in the second
\* round.
LabSamples ==
    {<<100000, 0, 0>>, <<540000, 0, 0>>, <<560000, 0, 0>>, <<1000000, 0, 0>>}

ClusterCounts == {1, 2, 3}

NoRun == [centroids |-> <<>>, assignments |-> <<>>, rounds |-> 0, changed |-> FALSE]

\* What k_means_clustering computes before it converts the centroids.
k_means_run(pixels, k) ==
    Rounds(pixels, initialize_centroids(pixels, k), [i \in 1..Len(pixels) |-> 1], 0)

KMeansInit ==
    /\ disk = [k \in Keys |-> Missing]
    /\ now = StartTime
    /\ calls = 0
    /\ last = NoCall
    /\ healed = [k \in Keys |-> FALSE]
    /\ stored = [k \in Keys |-> None]
    /\ race = NoRace
    /\ lyr = NoLyrics
    /\ worker = NoWorker
    /\ pal \in [stage : {"samples"},
                pixels : UNION {[1..n -> LabSamples] : n \in 1..MaxSamples},
                k : ClusterCounts,
                initial : {<<>>},
                run : {NoRun},
                colors : {<<>>}]

\* A call of ColorExtractor::k_means_clustering.
KMeansClustering ==
    /\ pal.stage = "samples"
    /\ pal' = [pal EXCEPT !.stage = "clustered",
                          !.initial = initialize_centroids(pal.pixels, pal.k),
                          !.run = k_means_run(pal.pixels, pal.k),
                          !.colors = k_means_clustering(pal.pixels, pal.k)]
    /\ UNCHANGED <<cacheVars, race, lyr, worker>>

KMeansNext == KMeansClustering

KMeansSpec == KMeansInit /\ [][KMeansNext]_vars

(***************************************************************************)
(* Properties of the clustering.                                           *)
(***************************************************************************)
\* Centroid c is a nearest one of a pixel, and the lowest index among the
\* nearest.
LowestNearest(pixel, centroids, c) ==
    /\ c \in 1..Len(centroids)
    /\ \A j \in 1..Len(centroids) :
           color_distance(pixel, centroids[c]) <= color_distance(pixel, centroids[j])
    /\ \A j \in 1..(c - 1) :
           color_distance(pixel, centroids[c]) < color_distance(pixel, centroids[j])

\* C23: k_means_clustering ends after at most 50 rounds of assignment; when
\* it stops early, in a round that changed no assignment, the centroids
\* are not updated after that round, so every sample is assigned to a
\* nearest centroid of the final set, the lowest index among equally near
\* ones.
C23_StopsWithNearestAssignments ==
    pal.stage = "clustered" =>
        /\ pal.run.rounds \in 1..MaxIterations
        /\ Len(pal.run.assignments) = Len(pal.pixels)
        /\ ~pal.run.changed =>
               \A i \in 1..Len(pal.pixels) :
                   LowestNearest(pal.pixels[i], pal.run.centroids, pal.run.assignments[i])

\* A run that moved centroids and reassigned samples in a second round
\* before it stopped early in a third.
C23_Witness ==
    /\ pal.stage = "clustered"
    /\ ~pal.run.changed
    /\ pal.run.rounds >= 3
    /\ pal.run.centroids # pal.initial

(***************************************************************************)
(* The state machine of two calls of extract_palette with one image and    *)
(* one pair of counts.                                                     *)
(***************************************************************************)
MaxRepeatPixels == 3

RepeatImages ==
    UNION {[width : {n}, height : {1}, data : [1..n -> {Dark, Green, Red, White}]] :
              n \in 1..MaxRepeatPixels}
        \cup {GrayLimeImage}

RepeatInit ==
    /\ disk = [k \in Keys |-> Missing]
    /\ now = StartTime
    /\ calls = 0
    /\ last = NoCall
    /\ healed = [k \in Keys |-> FALSE]
    /\ stored = [k \in Keys |-> None]
    /\ pal \in [stage : {"input"}, image : RepeatImages,
                progress_count : ProgressCounts, info_count : InfoCounts,
                result : {NoResult}, again : {NoResult}]
    /\ race = NoRace
    /\ lyr = NoLyrics
    /\ worker = NoWorker

\* A second call of ColorExtractor::extract_palette with the same arguments.
ExtractPaletteAgain ==
    /\ pal.stage = "done"
    /\ pal' = [pal EXCEPT !.stage = "again",
                          !.again = extract_palette(pal.image, pal.progress_count,
                                                    pal.info_count)]
    /\ UNCHANGED <<cacheVars, race, lyr, worker>>

RepeatNext == ExtractPalette \/ ExtractPaletteAgain

RepeatSpec == RepeatInit /\ [][RepeatNext]_vars

NoFile == [exists |-> FALSE, bytes |-> <<>>]

\* What get does with the contents it has read at time t: the result, and
\* whether it goes on to remove the file.
get_contents(contents, t) ==
    LET parsed == from_bytes(contents)
    IN  IF ~parsed.ok
        THEN [ret |-> None, remove |-> TRUE]
        ELSE IF is_expired(parsed.v.cached_at, t)
             THEN [ret |-> None, remove |-> TRUE]
             ELSE [ret |-> Some(parsed.v), remove |-> FALSE]

\* A whole ImageCache::get on the file of the key, with nothing else
\* running.
get_file(file, t) ==
    IF ~file.exists
    THEN [ret |-> None, file |-> file]
    ELSE LET g == get_contents(file.bytes, t)
         IN  [ret |-> g.ret, file |-> IF g.remove THEN NoFile ELSE file]

GetSetInit ==
    /\ disk = [k \in Keys |-> Missing]
    /\ now = StartTime
    /\ calls = 0
    /\ last = NoCall
    /\ healed = [k \in Keys |-> FALSE]
    /\ stored = [k \in Keys |-> None]
    /\ pal = NoPalette
    /\ lyr = NoLyrics
    /\ worker = NoWorker
    /\ race \in [stage : {"getset"},
                 file : RaceFiles,
                 previous : {NoFile},
                 w : [pc : {"create"}, img : Images, t : RaceInstants,
                      unlinked : {FALSE}],
                 r : [pc : {"exists"}, t : RaceInstants, ret : {None}],
                 next : [pc : {"waiting"}, ret : {None}]]
    /\ race.previous = race.file

\* The reader is at cache_path.exists().
ReaderExists ==
    /\ race.stage = "getset"
    /\ race.r.pc = "exists"
    /\ race' = [race EXCEPT !.r.pc = IF race.file.exists THEN "read" ELSE "done"]
    /\ UNCHANGED <<cacheVars, pal, lyr, worker>>

\* The reader is at fs::read_to_string, followed by from_str and is_expired.
ReaderRead ==
    /\ race.stage = "getset"
    /\ race.r.pc = "read"
    /\ LET g == get_contents(race.file.bytes, race.r.t)
       IN  race' = [race EXCEPT !.r.pc = IF g.remove THEN "remove" ELSE "done",
                                !.r.ret = g.ret]
    /\ UNCHANGED <<cacheVars, pal, lyr, worker>>

\* The reader is at fs::remove_file, after which its get returns None.
ReaderRemove ==
    /\ race.stage = "getset"
    /\ race.r.pc = "remove"
    /\ race' = [race EXCEPT !.r.pc = "done",
                            !.file = NoFile,
                            !.w.unlinked = race.w.pc = "write"]
    /\ UNCHANGED <<cacheVars, pal, lyr, worker>>

\* The writer is at File::create of fs::write.
WriterCreate ==
    /\ race.stage = "getset"
    /\ race.w.pc = "create"
    /\ race' = [race EXCEPT !.file = create(race.file), !.w.pc = "write"]
    /\ UNCHANGED <<cacheVars, pal, lyr, worker>>

\* The writer is at write_all of fs::write, after which its set returns Ok.
WriterWriteAll ==
    /\ race.stage = "getset"
    /\ race.w.pc = "write"
    /\ race' = [race EXCEPT !.file = IF race.w.unlinked
                                     THEN race.file
                                     ELSE write_all(race.file, JsonOf(race.w)),
                            !.w.pc = "done"]
    /\ UNCHANGED <<cacheVars, pal, lyr, worker>>

\* Both calls have returned.
GetSetOver == race.stage = "getset" /\ race.r.pc = "done" /\ race.w.pc = "done"

\* The next get of the locator, after both calls have returned.
NextGet ==
    /\ GetSetOver
    /\ race.next.pc = "waiting"
    /\ LET g == get_file(race.file, race.r.t)
       IN  race' = [race EXCEPT !.next = [pc |-> "done", ret |-> g.ret],
                                !.file = g.file]
    /\ UNCHANGED <<cacheVars, pal, lyr, worker>>

GetSetNext ==
    \/ ReaderExists
    \/ ReaderRead
    \/ ReaderRemove
    \/ WriterCreate
    \/ WriterWriteAll
    \/ NextGet

GetSetSpec == GetSetInit /\ [][GetSetNext]_vars

(***************************************************************************)
(* Properties of a get that runs at the same time as a set.                *)
(***************************************************************************)
\* C25: a get concurrent with a set on the same locator returns absent, the
\* previous entry or the new entry; once both calls have returned, the new
\* entry is on disk, and the next get returns it.
C25_ConcurrentGetKeepsNewEntry ==
    GetSetOver =>
        /\ \/ race.r.ret = None
           \/ race.r.ret = Some(EntryOf(race.w))
           \/ /\ race.previous.exists
              /\ race.r.ret = Some(from_bytes(race.previous.bytes).v)
        /\ race.next.pc = "waiting" => race.file = [exists |-> TRUE, bytes |-> JsonOf(race.w)]
        /\ race.next.pc = "done" => race.next.ret = Some(EntryOf(race.w))

\* The first half of C25 alone: what the concurrent get returns.
C25_GetReturnsWholeEntryOrNone ==
    GetSetOver =>
        \/ race.r.ret = None
        \/ race.r.ret = Some(EntryOf(race.w))
        \/ /\ race.previous.exists
           /\ race.r.ret = Some(from_bytes(race.previous.bytes).v)

(***************************************************************************)
(* Properties of what the worker and its lyrics tasks publish.             *)
(***************************************************************************)
\* C26: the album art, pixel grid and palette the worker publishes with a
\* track are the artifacts fetched for an art locator of that track, or
\* all None; art fetched for the previous track is never published with
\* the new one.
C26_ArtBelongsToTrack ==
    (worker.pc = "loop" /\ worker.app.album_art.some) =>
        /\ worker.app.album_art_of = worker.app.track
        /\ worker.app.album_art.v = Artifacts(ImageAt(ArtUrl(worker.app.track)))

\* C27: lyrics are published only for the track the worker currently
\* reports: no lyrics task sets app.lyrics to the lyrics of another track,
\* or of any track after the player stopped.
C27_LyricsBelongToTrack ==
    [][(worker.pc = "loop" /\ worker'.app.lyrics # worker.app.lyrics
            /\ worker'.app.lyrics # 0)
          => worker'.app.lyrics = worker'.app.track]_vars

\* C28: a track change sets lyrics_loading, and the lyrics task spawned for
\* it sets it back to false on every path: when a task ends, lyrics_loading
\* is false.
C28_TaskEndsLoading ==
    [][worker.pc = "loop" =>
          /\ worker'.spawned # worker.spawned => worker'.app.lyrics_loading
          /\ \A n \in 1..MaxSpawns :
                 (worker.tasks[n].pc # "done" /\ worker'.tasks[n].pc = "done")
                     => ~worker'.app.lyrics_loading]_vars

\* C30: at the end of a polling iteration waiting_for_player is true
\* exactly when last_track is None, and then the published art, pixel
\* grid, palette and album metadata are None and progress is 0.
C30_WaitingIffNoTrack ==
    worker.pc = "loop" =>
        /\ worker.app.waiting_for_player <=> worker.last_track = 0
        /\ worker.app.waiting_for_player =>
               /\ worker.app.album_art = NoArt
               /\ worker.app.album_metadata = 0
               /\ worker.app.progress = 0

\* The player has stopped after a track with art, metadata and progress
\* was published.
C30_Witness ==
    /\ worker.pc = "loop"
    /\ worker.spawned > 0
    /\ worker.last_track = 0
    /\ worker.app.waiting_for_player
    /\ worker.app.album_art = NoArt
    /\ \E k \in Keys : disk[k].exists

(***************************************************************************)
(* The state machine of extract_palette over the whole range of            *)
(* info_count.                                                             *)
(***************************************************************************)
\* Rows of one or two pixels, an image whose pixels are all skipped, and the
\* gray/green/dark row.
CountImages ==
    {im \in RepeatImages : im.width <= 2}
        \cup {create_test_image(1, 1, NearBlack), GrayLimeImage}

CountInit ==
    /\ disk = [k \in Keys |-> Missing]
    /\ now = StartTime
    /\ calls = 0
    /\ last = NoCall
    /\ healed = [k \in Keys |-> FALSE]
    /\ stored = [k \in Keys |-> None]
    /\ pal \in [stage : {"input"}, image : CountImages,
                progress_count : ProgressCounts, info_count : 0..UsizeMax,
                result : {NoResult}]
    /\ race = NoRace
    /\ lyr = NoLyrics
    /\ worker = NoWorker

CountNext == ExtractPalette

CountSpec == CountInit /\ [][CountNext]_vars

(***************************************************************************)
(* Properties of the fallback loop.                                        *)
(***************************************************************************)
\* C29: extract_palette terminates for every image and every pair of
\* counts: the clustering yields progress_count + info_count + 2
\* candidates, the two passes fill all info_count slots, and the fallback
\* loop is never entered.
C29_FallbackNeverEntered ==
    pal.stage = "done" =>
        /\ pal.result.terminates
        /\ ~pal.result.fallback
        /\ Len(pal.result.colors) = pal.progress_count + pal.info_count + 2

\* The same for the pairs of counts whose sum with 2 fits into usize.
C29_FallbackNeverEnteredWithoutOverflow ==
    (pal.stage = "done" /\ ~pal.result.overflow) =>
        /\ pal.result.terminates
        /\ ~pal.result.fallback
        /\ Len(pal.result.colors) = pal.progress_count + pal.info_count + 2

====
